---- MODULE Spec2Model ----
(***************************************************************************)
(* A model of the access-control layer (accounts/rbac_service.py,          *)
(* accounts/rbac_decorators.py, accounts/permissions.py), of Membership    *)
(* creation (accounts/models.py, accounts/signals.py) and of the           *)
(* enrollment endpoints (broker_console/views.py).                         *)
(*                                                                         *)
(* The module holds several specifications over disjoint groups of         *)
(* variables; each leaves the other groups at their initial value:         *)
(*   SpecRBAC     the RBACService calls and the require_permission guard   *)
(*   SpecGuard    the org_scoped / requires_role / superuser_required      *)
(*                decorators over a Membership table                       *)
(*   SpecMembership  concurrent Membership.objects.create requests         *)
(*   SpecEnroll   the start / submit / approve / terminate endpoints       *)
(*   SpecSave     Membership saves through the ORM and through the admin    *)
(*   SpecAudit    the AuditEvent table under the admin and the API          *)
(*   SpecEvents   the EnrollmentEvent table under the API                   *)
(*   SpecAssign   RBACService.assign_role and its transaction               *)
(*   SpecSaveFail Membership saves whose AuditEvent write fails             *)
(*   SpecManage   RBACService.can_manage_user over pairs of profiles        *)
(*   SpecPure     the read-only calls of RBACService, each asked twice      *)
(*   SpecApi      RBACAPIMiddleware in front of the views                   *)
(*   SpecLevels   has_permission compared along ROLE_HIERARCHY              *)
(*   SpecRace     concurrent start/submit/approve requests, step by step    *)
(*   SpecForms    review of employee form submissions                       *)
(***************************************************************************)
EXTENDS Integers, Sequences, FiniteSets, TLC

VARIABLES
    profile,        \* the requesting user's access profile (user.profile), or NoProfile
    auditLog,       \* the AuditLog table RBACService.assign_role writes, in creation order
    call,           \* the RBACService call or guarded request in hand, with what it returned
    auditEvents,    \* the AuditEvent table, in creation order
    memberships,    \* the Membership table: rows [user, organization, role]
    superusers,     \* the users whose is_superuser flag is set
    users,          \* the User table (the rows that exist), where a specification deletes users
    guard,          \* the request to a view decorated by accounts/permissions.py, and its outcome
    groups,         \* the names of the Django Group rows
    userGroups,     \* user.groups: pairs <<user, group name>>
    pc,             \* per Membership.objects.create request: where the request stands
    req,            \* per Membership.objects.create request: the row it creates
    enrollments,    \* the EmployeeEnrollment rows, by id
    planEnrollments,  \* the PlanEnrollment rows, by id
    enrollmentEvents, \* the EnrollmentEvent table, in creation order
    now,            \* the clock datetime.now() reads
    response,       \* the enrollment request in hand and its response
    submissions,    \* the EmployeeFormSubmission rows, by id
    employees       \* the Employee table, in creation order

rbacVars == <<profile, auditLog, call>>

guardVars == <<superusers, guard, users>>

memberVars == <<groups, userGroups, pc, req>>

enrollVars == <<enrollments, planEnrollments, enrollmentEvents, now, response,
                submissions, employees>>

vars == <<profile, auditLog, call, auditEvents, memberships, superusers, guard, users,
          groups, userGroups, pc, req,
          enrollments, planEnrollments, enrollmentEvents, now, response,
          submissions, employees>>

None == "None"

----------------------------------------------------------------------------
(* The value each group of variables keeps in the specifications that do not use it *)

Idle == [op |-> "idle"]

RBACQuiet ==
    profile = [role |-> None, organization |-> None] /\ auditLog = <<>> /\ call = Idle

GuardQuiet == superusers = {} /\ guard = Idle /\ users = {}

MemberQuiet == groups = {} /\ userGroups = {} /\ pc = <<>> /\ req = <<>>

EnrollQuiet ==
    /\ enrollments = <<>>
    /\ planEnrollments = <<>>
    /\ enrollmentEvents = <<>>
    /\ now = 0
    /\ response = Idle
    /\ submissions = <<>>
    /\ employees = <<>>

----------------------------------------------------------------------------
(* RBACService: the static tables *)

\* RBACService.ROLE_HIERARCHY (the level of a role that is not listed is 0)
ROLE_HIERARCHY ==
    [r \in {"employee", "employer_hr", "employer_admin", "broker_user",
            "broker_admin", "carrier_user", "carrier_admin", "super_admin"} |->
        CASE r = "employee" -> 1
          [] r = "employer_hr" -> 2
          [] r = "employer_admin" -> 3
          [] r = "broker_user" -> 4
          [] r = "broker_admin" -> 5
          [] r = "carrier_user" -> 6
          [] r = "carrier_admin" -> 7
          [] r = "super_admin" -> 10]

CRUD == {"create", "read", "update", "delete"}

\* RBACService.ROLE_PERMISSIONS: role -> resource -> actions
ROLE_PERMISSIONS ==
    [r \in {"super_admin", "broker_admin", "broker_user", "employer_admin",
            "employer_hr", "employee", "carrier_admin", "carrier_user",
            "readonly_user"} |->
        CASE r = "super_admin" ->
               [res \in {"employees", "employers", "plans", "enrollments", "users",
                         "roles", "organizations", "settings", "reports", "billing"} |->
                   CASE res = "reports" -> {"read", "export", "view_all"}
                     [] res = "billing" -> {"read", "update", "manage"}
                     [] OTHER -> CRUD \cup {"manage"}]
          [] r = "broker_admin" ->
               [res \in {"employees", "employers", "plans", "enrollments", "users",
                         "reports", "settings"} |->
                   CASE res \in {"employees", "employers", "plans"} -> CRUD
                     [] res = "enrollments" -> {"read", "update", "export"}
                     [] res = "users" -> {"create", "read", "update"}
                     [] res = "reports" -> {"read", "export", "view_org"}
                     [] res = "settings" -> {"read", "update"}]
          [] r = "broker_user" ->
               [res \in {"employees", "employers", "plans", "enrollments", "reports"} |->
                   CASE res \in {"employees", "employers", "enrollments"} -> {"read", "update"}
                     [] res = "plans" -> {"read"}
                     [] res = "reports" -> {"read", "view_assigned"}]
          [] r = "employer_admin" ->
               [res \in {"employees", "plans", "enrollments", "users", "reports",
                         "settings"} |->
                   CASE res \in {"employees", "users"} -> {"create", "read", "update"}
                     [] res \in {"plans", "enrollments"} -> {"read"}
                     [] res = "reports" -> {"read", "view_own"}
                     [] res = "settings" -> {"read", "update"}]
          [] r = "employer_hr" ->
               [res \in {"employees", "plans", "enrollments", "reports"} |->
                   CASE res = "employees" -> {"read", "update"}
                     [] res \in {"plans", "enrollments"} -> {"read"}
                     [] res = "reports" -> {"read", "view_own"}]
          [] r = "employee" ->
               [res \in {"employees", "plans", "enrollments"} |->
                   CASE res = "employees" -> {"view_own"}
                     [] res = "plans" -> {"read"}
                     [] res = "enrollments" -> {"view_own", "update_own"}]
          [] r = "carrier_admin" ->
               [res \in {"plans", "enrollments", "reports"} |->
                   CASE res = "plans" -> CRUD
                     [] res = "enrollments" -> {"read"}
                     [] res = "reports" -> {"read", "view_carrier"}]
          [] r = "carrier_user" ->
               [res \in {"plans", "enrollments", "reports"} |-> {"read"}]
          [] r = "readonly_user" ->
               [res \in {"employees", "employers", "plans", "enrollments", "reports"} |->
                   {"read"}]]

\* self.ROLE_PERMISSIONS.get(role, {}).get(resource, [])
resource_permissions(role, resource) ==
    IF role \in DOMAIN ROLE_PERMISSIONS /\ resource \in DOMAIN ROLE_PERMISSIONS[role]
    THEN ROLE_PERMISSIONS[role][resource]
    ELSE {}

\* role.startswith('broker_') and role.startswith('employer_'), over the roles of the model
StartsWithBroker(role) == role \in {"broker_admin", "broker_user"}

StartsWithEmployer(role) == role \in {"employer_admin", "employer_hr"}

----------------------------------------------------------------------------
(* The stored records RBACService reads *)

\* UserProfile.ROLE_CHOICES, and one role name that no table lists
\* (role is a free CharField: its choices are not enforced on save)
Roles == {"super_admin", "broker_admin", "broker_user", "employer_admin", "employer_hr",
          "employee", "carrier_admin", "carrier_user", "readonly_user", "auditor"}

\* The organizations of the store: two brokers, two employers
\* (RBACService compares Organization ids and Employer ids as one id space)
Organizations ==
    { [id |-> "B1", type |-> "broker",   is_active |-> TRUE],
      [id |-> "B2", type |-> "broker",   is_active |-> FALSE],
      [id |-> "E1", type |-> "employer", is_active |-> TRUE],
      [id |-> "E2", type |-> "employer", is_active |-> TRUE] }

OrgIds == {o.id : o \in Organizations}

OrgById(id) == CHOOSE o \in Organizations : o.id = id

\* broker_console Employer rows: B1 sponsors E1 and E2, B2 sponsors E3
EmployerRows ==
    { [id |-> "E1", broker |-> "B1"],
      [id |-> "E2", broker |-> "B1"],
      [id |-> "E3", broker |-> "B2"] }

NoProfile == [role |-> None, organization |-> None]

\* A profile as the service reads it: profile.role, profile.organization (nullable)
Profiles == [role : Roles, organization : OrgIds \cup {None}]

HasProfile(p) == p # NoProfile

----------------------------------------------------------------------------
(* RBACService: the calls.  An exception inside a call is caught by the    *)
(* call's own try/except, which returns the deny value.                    *)

\* RBACService._user_can_access_employer
\* Employer.objects.filter(id=employer_id, broker=profile.organization).exists()
user_can_access_employer(p, employer_id) ==
    IF p.organization = None
    THEN FALSE
    ELSE \E e \in EmployerRows : e.id = employer_id /\ e.broker = p.organization

\* a table test that lets every (resource, action) through
table_allows_any(role, resource, action) == TRUE

\* has_permission, lines 141-146: action in ROLE_PERMISSIONS.get(role, {}).get(resource, [])
table_allows(role, resource, action) == action \in resource_permissions(role, resource)

\* has_permission, lines 148-165: the organization context of a scoped action.
\* TRUE when no check applies (no context, no own organization, or an unscoped action).
organization_scope_allows(p, action, organization_id) ==
    LET role == p.role
        user_org_id == p.organization
    IN  IF organization_id # None /\ user_org_id # None
           /\ action \in {"create", "update", "delete", "manage"}
        THEN IF StartsWithBroker(role) /\ user_can_access_employer(p, organization_id)
             THEN TRUE
             ELSE IF StartsWithEmployer(role) /\ user_org_id = organization_id
             THEN TRUE
             ELSE IF role = "employee" /\ user_org_id = organization_id
             THEN TRUE
             ELSE FALSE
        ELSE TRUE

\* has_permission without the super_admin branch of line 138
has_permission_by_table_only(p, resource, action, organization_id) ==
    IF ~HasProfile(p)
    THEN FALSE
    ELSE IF ~table_allows(p.role, resource, action)
    THEN FALSE
    ELSE organization_scope_allows(p, action, organization_id)

\* RBACService.has_permission(user, resource, action, organization_id)
\* p is getattr(user, 'profile', None); organization_id = None when not supplied
has_permission(p, resource, action, organization_id) ==
    IF ~HasProfile(p)
    THEN FALSE
    ELSE IF p.role = "super_admin"
    THEN TRUE
    ELSE IF ~table_allows(p.role, resource, action)
    THEN FALSE
    ELSE organization_scope_allows(p, action, organization_id)

\* An element of the list get_accessible_organizations returns: the id as values_list
\* gives it (the key's own type), or str(id)
raw_id(id) == [id |-> id, str |-> FALSE]

str_id(id) == [id |-> id, str |-> TRUE]

\* the organizations a list of ids names, whatever the type of its elements
ids_of(listed) == {x.id : x \in listed}

\* get_accessible_organizations without the is_active filter of the super_admin branch
\* and with the own organization for every other role
get_accessible_organizations_unfiltered(p) ==
    IF ~HasProfile(p)
    THEN {}
    ELSE IF p.role = "super_admin"
    THEN {raw_id(o.id) : o \in Organizations}
    ELSE IF p.organization # None
    THEN {str_id(p.organization)}
    ELSE {}

\* RBACService.get_accessible_organizations(user), the returned list as a set:
\* the super_admin branch returns the ids as stored, the other branches str(id)
get_accessible_organizations(p) ==
    IF ~HasProfile(p)
    THEN {}
    ELSE LET role == p.role
             user_org == p.organization
         IN  IF role = "super_admin"
             THEN {raw_id(o.id) : o \in {x \in Organizations : x.is_active}}
             ELSE IF StartsWithBroker(role)
             THEN IF user_org # None /\ OrgById(user_org).type = "broker"
                  THEN {str_id(user_org)}
                       \cup {str_id(e.id) : e \in {x \in EmployerRows : x.broker = user_org}}
                  ELSE {}
             ELSE IF user_org # None
             THEN {str_id(user_org)}
             ELSE {}

\* The querysets handed to filter_queryset_by_permissions: the rows, and the lookups
\* the queryset's model accepts (a filter on any other lookup raises FieldError).
\* Employee and EmployeeEnrollment are the models of broker_console/models.py; "records"
\* stands for a model that carries user and organization_id.
QuerySets ==
    [ employees |->
        [ fields |-> {"id", "employer_id"},
          rows |-> { [id |-> "emp1", employer_id |-> "E1"],
                     [id |-> "emp2", employer_id |-> "E2"],
                     [id |-> "emp3", employer_id |-> "E3"] } ],
      employers |->
        [ fields |-> {"id", "broker"},
          rows |-> EmployerRows ],
      enrollments |->
        [ fields |-> {"id", "employee__employer_id"},
          rows |-> { [id |-> "en1", employee__employer_id |-> "E1"],
                     [id |-> "en3", employee__employer_id |-> "E3"] } ],
      records |->
        [ fields |-> {"id", "user", "organization_id"},
          rows |-> { [id |-> "r1", user |-> "u1", organization_id |-> "E1"],
                     [id |-> "r2", user |-> "u2", organization_id |-> "B1"],
                     [id |-> "r3", user |-> "u2", organization_id |-> "B2"] } ] ]

QuerySetNames == DOMAIN QuerySets

\* a filter that keeps every row
FilterEqKeepsAll(qs, field, value) ==
    IF field \notin qs.fields
    THEN [raised |-> TRUE, rows |-> {}]
    ELSE [raised |-> FALSE, rows |-> qs.rows]

\* queryset.filter(<field>=value): FieldError when the model has no such lookup
FilterEq(qs, field, value) ==
    IF field \notin qs.fields
    THEN [raised |-> TRUE, rows |-> {}]
    ELSE [raised |-> FALSE, rows |-> {r \in qs.rows : r[field] = value}]

\* an __in filter that keeps every row
FilterInKeepsAll(qs, field, values) ==
    IF field \notin qs.fields
    THEN [raised |-> TRUE, rows |-> {}]
    ELSE [raised |-> FALSE, rows |-> qs.rows]

\* queryset.filter(<field>__in=values): the lookup converts each value to the type of
\* the field, so an id and its str name the same key
FilterIn(qs, field, values) ==
    IF field \notin qs.fields
    THEN [raised |-> TRUE, rows |-> {}]
    ELSE [raised |-> FALSE, rows |-> {r \in qs.rows : r[field] \in ids_of(values)}]

\* the whole queryset where queryset.none() was meant
queryset_all(qs) == [raised |-> FALSE, rows |-> qs.rows]

\* queryset.none()
queryset_none(qs) == [raised |-> FALSE, rows |-> {}]

\* The body of filter_queryset_by_permissions, inside its try
filter_queryset_body(p, user, qs, resource) ==
    IF ~HasProfile(p)
    THEN queryset_none(qs)
    ELSE LET role == p.role
             accessible_orgs == get_accessible_organizations(p)
         IN  IF role = "super_admin"
             THEN [raised |-> FALSE, rows |-> qs.rows]
             ELSE IF resource = "employees"
             THEN IF role = "employee"
                  THEN FilterEq(qs, "user", user)
                  ELSE FilterIn(qs, "employer_id", accessible_orgs)
             ELSE IF resource = "employers" /\ StartsWithBroker(role)
             THEN FilterEq(qs, "broker", p.organization)
             ELSE IF resource = "employers" /\ StartsWithEmployer(role)
             THEN FilterEq(qs, "id", p.organization)
             ELSE IF resource = "enrollments"
             THEN IF role = "employee"
                  THEN FilterEq(qs, "employee__user", user)
                  ELSE FilterIn(qs, "employee__employer_id", accessible_orgs)
             ELSE FilterIn(qs, "organization_id", accessible_orgs)

\* RBACService.filter_queryset_by_permissions: except Exception -> queryset.none(),
\* so no exception leaves the call
filter_queryset_by_permissions(p, user, qs, resource) ==
    LET r == filter_queryset_body(p, user, qs, resource)
    IN  IF r.raised THEN queryset_none(qs) ELSE r

----------------------------------------------------------------------------
(* rbac_decorators.require_permission *)

\* The response of a view wrapped by require_permission(resource, action, organization_param)
\* to one request: authenticated is FALSE for AnonymousUser, organization_id is what
\* kwargs / request.data hold under organization_param (None when there is none).
\* The wrapper creates no AuditEvent on any path (it writes to the logger);
\* building the 403 body reads request.user.profile, which raises when the user has none.
require_permission(authenticated, p, resource, action, organization_id) ==
    IF ~authenticated
    THEN [status |-> 401, view_executed |-> FALSE, audit |-> <<>>]
    ELSE IF ~has_permission(p, resource, action, organization_id)
    THEN IF HasProfile(p)
         THEN [status |-> 403, view_executed |-> FALSE, audit |-> <<>>]
         ELSE [status |-> 500, view_executed |-> FALSE, audit |-> <<>>]
    ELSE [status |-> 200, view_executed |-> TRUE, audit |-> <<>>]

----------------------------------------------------------------------------
(* SpecRBAC: one user, whose profile Init draws, calls the service *)

RequestUser == "u1"

Resources == {"employees", "employers", "plans", "enrollments", "users", "roles",
              "organizations", "settings", "reports", "billing", "admin"}

Actions == {"create", "read", "update", "delete", "manage", "export", "view_all",
            "view_org", "view_assigned", "view_own", "update_own", "view_carrier",
            "approve"}

\* The organization contexts a caller passes: none, a stored organization, an employer id
OrgContexts == {None} \cup OrgIds \cup {"E3"}

RBACInit ==
    /\ profile \in Profiles \cup {NoProfile}
    /\ auditLog = <<>>
    /\ call = Idle
    /\ auditEvents = <<>>
    /\ memberships = {}
    /\ GuardQuiet
    /\ MemberQuiet
    /\ EnrollQuiet

HasPermissionCall ==
    /\ call = Idle
    /\ \E resource \in Resources, action \in Actions, org \in OrgContexts :
         call' = [op |-> "has_permission", resource |-> resource, action |-> action,
                  organization_id |-> org,
                  result |-> has_permission(profile, resource, action, org)]
    /\ UNCHANGED <<profile, auditLog, auditEvents, memberships, guardVars, memberVars,
                   enrollVars>>

AccessibleOrganizationsCall ==
    /\ call = Idle
    /\ call' = [op |-> "get_accessible_organizations",
                result |-> get_accessible_organizations(profile)]
    /\ UNCHANGED <<profile, auditLog, auditEvents, memberships, guardVars, memberVars,
                   enrollVars>>

FilterCall ==
    /\ call = Idle
    /\ \E resource \in Resources, q \in QuerySetNames :
         call' = [op |-> "filter_queryset_by_permissions", resource |-> resource,
                  queryset |-> q,
                  raised |-> filter_queryset_by_permissions(
                                 profile, RequestUser, QuerySets[q], resource).raised,
                  result |-> filter_queryset_by_permissions(
                                 profile, RequestUser, QuerySets[q], resource).rows]
    /\ UNCHANGED <<profile, auditLog, auditEvents, memberships, guardVars, memberVars,
                   enrollVars>>

GuardedRequest ==
    /\ call = Idle
    /\ \E authenticated \in BOOLEAN, resource \in Resources, action \in Actions,
          org \in OrgContexts :
         LET r == require_permission(authenticated, profile, resource, action, org)
         IN  /\ call' = [op |-> "require_permission", authenticated |-> authenticated,
                         resource |-> resource, action |-> action,
                         organization_id |-> org,
                         denied |-> authenticated
                                    /\ ~has_permission(profile, resource, action, org),
                         status |-> r.status, view_executed |-> r.view_executed]
             /\ auditEvents' = auditEvents \o r.audit
    /\ UNCHANGED <<profile, auditLog, memberships, guardVars, memberVars, enrollVars>>

Return ==
    /\ call # Idle
    /\ call' = Idle
    /\ UNCHANGED <<profile, auditLog, auditEvents, memberships, guardVars, memberVars,
                   enrollVars>>

RBACNext ==
    \/ HasPermissionCall
    \/ AccessibleOrganizationsCall
    \/ FilterCall
    \/ GuardedRequest
    \/ Return

SpecRBAC == RBACInit /\ [][RBACNext]_vars

----------------------------------------------------------------------------
(* Claims on the RBACService calls, under SpecRBAC *)

IsHasPermission == call.op = "has_permission"

\* C1: for an actor whose profile role is super_admin, has_permission returns true for
\* every resource, every action and every organization context, also for pairs the
\* super_admin table does not list and for organizations that are not the actor's own.
C1_SuperAdminAllowed ==
    (IsHasPermission /\ HasProfile(profile) /\ profile.role = "super_admin")
        => call.result = TRUE

\* C1 witness: a super_admin assigned to B1 is allowed an action the table does not list
\* for the resource, in the context of another organization.
C1_Witness ==
    /\ IsHasPermission
    /\ profile = [role |-> "super_admin", organization |-> "B1"]
    /\ call.action \notin resource_permissions("super_admin", call.resource)
    /\ call.organization_id = "E3"
    /\ call.result = TRUE

\* C2: deny by default: for every role other than super_admin, also one ROLE_PERMISSIONS
\* has no entry for, and every (resource, action) the role's table does not list,
\* has_permission returns false, with or without an organization context.
C2_DenyByDefault ==
    (/\ IsHasPermission
     /\ HasProfile(profile)
     /\ profile.role # "super_admin"
     /\ call.action \notin resource_permissions(profile.role, call.resource))
        => call.result = FALSE

\* C2 witness: a role with no table, asking for a scoped action in its own organization.
C2_Witness ==
    /\ IsHasPermission
    /\ profile = [role |-> "auditor", organization |-> "E1"]
    /\ call.resource = "employees"
    /\ call.action = "update"
    /\ call.organization_id = "E1"
    /\ call.result = FALSE

\* C3: for an actor with no access profile, get_accessible_organizations returns the
\* empty list, filter_queryset_by_permissions returns an empty collection for every
\* resource, has_permission returns false, and no exception leaves any of the three.
C3_NoProfileDenied ==
    ~HasProfile(profile) =>
        /\ call.op = "get_accessible_organizations" => call.result = {}
        /\ call.op = "filter_queryset_by_permissions" =>
               (call.result = {} /\ ~call.raised)
        /\ call.op = "has_permission" => call.result = FALSE

\* C3 witness: a filter call by a user without profile, on a queryset that holds rows.
C3_Witness ==
    /\ ~HasProfile(profile)
    /\ call.op = "filter_queryset_by_permissions"
    /\ call.resource = "employees"
    /\ QuerySets[call.queryset].rows # {}
    /\ call.result = {}

\* C4: a request that require_permission rejects because has_permission returned false
\* adds exactly one AuditEvent of kind permission_denied, whose actor is the requesting
\* user and which carries a reason; the view is not executed and the response is 403.
C4_DenialAudited ==
    [][(call'.op = "require_permission" /\ call'.denied) =>
          /\ Len(auditEvents') = Len(auditEvents) + 1
          /\ auditEvents'[Len(auditEvents')].event = "permission_denied"
          /\ auditEvents'[Len(auditEvents')].user = RequestUser
          /\ "reason" \in DOMAIN auditEvents'[Len(auditEvents')].metadata
          /\ ~call'.view_executed
          /\ call'.status = 403]_vars

\* C4, what the code does on a rejection: no AuditEvent, and 403 only for a user
\* with a profile.
C4_DenialNotAudited ==
    /\ call.op = "require_permission"
    /\ call.denied
    /\ HasProfile(profile)
    /\ call.status = 403
    /\ ~call.view_executed
    /\ auditEvents = <<>>

----------------------------------------------------------------------------
(* accounts/permissions.py: org_scoped, requires_role, superuser_required *)

Users == {"u1", "u2"}

Anonymous == "AnonymousUser"

\* accounts.models.Organization rows (ids)
GuardOrgs == {"o1", "o2"}

\* accounts.models.Role
Role == {"superuser", "broker_admin", "employer_admin", "employee"}

NoMembership == [pk |-> 0, user |-> None, organization |-> None, role |-> None]

\* Membership.objects.get(user=..., organization=...): the row, or NoMembership (DoesNotExist)
MembershipOf(ms, user, organization) ==
    IF \E m \in ms : m.user = user /\ m.organization = organization
    THEN CHOOSE m \in ms : m.user = user /\ m.organization = organization
    ELSE NoMembership

\* AuditEvent.objects.create(user=, event='permission_denied', organization=, metadata=)
DeniedEvent(user, organization, metadata) ==
    [user |-> user, event |-> "permission_denied", organization |-> organization,
     metadata |-> metadata]

\* The wrapper of org_scoped, up to the call of the view: org_arg is the organization
\* id found in the URL kwargs or the request data (None when there is none).
\* outcome "ok" means the wrapped view is called with request.current_membership set.
org_scoped(user, org_arg, ms) ==
    IF user = Anonymous
    THEN [outcome |-> "redirect", audit |-> <<>>, membership |-> NoMembership]
    ELSE IF org_arg = None
    THEN [outcome |-> "PermissionDenied", audit |-> <<>>, membership |-> NoMembership]
    ELSE IF org_arg \notin GuardOrgs
    THEN [outcome |-> "Http404", audit |-> <<>>, membership |-> NoMembership]
    ELSE IF MembershipOf(ms, user, org_arg) = NoMembership
    THEN [outcome |-> "PermissionDenied",
          audit |-> << DeniedEvent(user, org_arg, [reason |-> "no_membership"]) >>,
          membership |-> NoMembership]
    ELSE [outcome |-> "ok", audit |-> <<>>, membership |-> MembershipOf(ms, user, org_arg)]

\* requires_role(*required_roles): the wrapper runs as the view of org_scoped
requires_role(required_roles, user, org_arg, ms) ==
    LET scoped == org_scoped(user, org_arg, ms)
    IN  IF scoped.outcome # "ok"
        THEN scoped
        ELSE IF scoped.membership.role \notin required_roles
        THEN [outcome |-> "PermissionDenied",
              audit |-> << DeniedEvent(user, org_arg,
                              [required_roles |-> required_roles,
                               user_role |-> scoped.membership.role,
                               reason |-> "insufficient_role"]) >>,
              membership |-> scoped.membership]
        ELSE scoped

\* superuser_required
superuser_required(user, supers) ==
    IF user = Anonymous
    THEN [outcome |-> "redirect", audit |-> <<>>, membership |-> NoMembership]
    ELSE IF user \notin supers
    THEN [outcome |-> "PermissionDenied",
          audit |-> << DeniedEvent(user, None, [reason |-> "not_superuser"]) >>,
          membership |-> NoMembership]
    ELSE [outcome |-> "ok", audit |-> <<>>, membership |-> NoMembership]

\* broker_admin_required and employer_admin_required
BrokerAdminRoles == {"superuser", "broker_admin"}

EmployerAdminRoles == {"superuser", "broker_admin", "employer_admin"}

----------------------------------------------------------------------------
(* SpecGuard: requests to decorated views, over a Membership table Init draws *)

\* The AuditEvent table is followed up to this many rows
MaxAuditEvents == 2

\* No two rows of a Membership table for one (user, organization)
UniqueTogether(ms) ==
    \A m1, m2 \in ms :
        (m1.user = m2.user /\ m1.organization = m2.organization) => m1 = m2

\* The organization ids a request names: none, a stored one, one that does not exist
OrgArgs == {None} \cup GuardOrgs \cup {"o9"}

\* The Membership tables SpecGuard starts from: u1 with any role, or no row, in each
\* organization (pk 1 in o1, pk 2 in o2); u2 is a member of none
GuardMemberships ==
    {ms \in SUBSET [pk : {1, 2}, user : {"u1"}, organization : GuardOrgs, role : Role] :
        /\ UniqueTogether(ms)
        /\ \A m \in ms : m.pk = (IF m.organization = "o1" THEN 1 ELSE 2)}

GuardInit ==
    /\ memberships \in GuardMemberships
    /\ superusers \in SUBSET Users
    /\ users = Users
    /\ auditEvents = <<>>
    /\ guard = Idle
    /\ RBACQuiet
    /\ MemberQuiet
    /\ EnrollQuiet

Respond(decorator, user, org_arg, required_roles, r) ==
    /\ Len(auditEvents) + Len(r.audit) <= MaxAuditEvents
    /\ guard' = [op |-> decorator, user |-> user, organization |-> org_arg,
                 required_roles |-> required_roles, outcome |-> r.outcome]
    /\ auditEvents' = auditEvents \o r.audit
    /\ UNCHANGED <<memberships, superusers, users, rbacVars, memberVars, enrollVars>>

OrgScopedRequest ==
    /\ guard = Idle
    /\ \E user \in Users \cup {Anonymous}, org_arg \in OrgArgs :
         Respond("org_scoped", user, org_arg, {}, org_scoped(user, org_arg, memberships))

RequiresRoleRequest ==
    /\ guard = Idle
    /\ \E user \in Users \cup {Anonymous}, org_arg \in OrgArgs,
          required_roles \in {BrokerAdminRoles, EmployerAdminRoles} :
         Respond("requires_role", user, org_arg, required_roles,
                 requires_role(required_roles, user, org_arg, memberships))

SuperuserRequiredRequest ==
    /\ guard = Idle
    /\ \E user \in Users \cup {Anonymous} :
         Respond("superuser_required", user, None, {}, superuser_required(user, superusers))

GuardReturn ==
    /\ guard # Idle
    /\ guard' = Idle
    /\ UNCHANGED <<memberships, superusers, users, auditEvents, rbacVars, memberVars, enrollVars>>

GuardNext ==
    \/ OrgScopedRequest
    \/ RequiresRoleRequest
    \/ SuperuserRequiredRequest
    \/ GuardReturn

SpecGuard == GuardInit /\ [][GuardNext]_vars

\* C5: for views guarded by org_scoped, requires_role or superuser_required, every call
\* that ends in PermissionDenied has created exactly one new AuditEvent of kind
\* permission_denied with reason no_membership, insufficient_role or not_superuser,
\* and a call that is allowed creates none.
C5_EveryDenialAudited ==
    [][/\ guard'.op \in {"org_scoped", "requires_role", "superuser_required"}
          /\ guard'.outcome = "PermissionDenied"
          => /\ Len(auditEvents') = Len(auditEvents) + 1
             /\ auditEvents'[Len(auditEvents')].event = "permission_denied"
             /\ auditEvents'[Len(auditEvents')].user = guard'.user
             /\ auditEvents'[Len(auditEvents')].metadata.reason
                    \in {"no_membership", "insufficient_role", "not_superuser"}
       /\ guard'.op \in {"org_scoped", "requires_role", "superuser_required"}
          /\ guard'.outcome = "ok"
          => auditEvents' = auditEvents]_vars

\* C5, the case the code does not audit: PermissionDenied("Organization not specified").
C5_UnauditedDenial ==
    /\ guard.op = "org_scoped"
    /\ guard.user \in Users
    /\ guard.organization = None
    /\ guard.outcome = "PermissionDenied"
    /\ auditEvents = <<>>

----------------------------------------------------------------------------
(* SpecMembership: concurrent Membership.objects.create(user, organization, role).  *)
(* Membership.save runs three statements against the store, each atomic, and other  *)
(* requests may run between them: the INSERT of Model.save, the AuditEvent INSERT   *)
(* of the post_save receiver handle_membership_created, and _sync_user_groups.      *)

\* The number of concurrent creation requests
MaxCreators == 2

Creators == 1 .. MaxCreators

\* The organizations and roles the creation requests name
CreateOrgs == GuardOrgs

CreateRoles == {"broker_admin", "employee"}

\* a table without the unique_together constraint
unique_violation_never(ms, row) == FALSE

\* Membership.Meta.unique_together = ("user", "organization"): the store rejects the
\* INSERT (IntegrityError) when a row for the pair exists
unique_violation(ms, row) ==
    \E m \in ms : m.user = row.user /\ m.organization = row.organization

\* handle_membership_created, created = True
MembershipCreatedEvent(row) ==
    [user |-> row.user, event |-> "membership_created", organization |-> row.organization,
     metadata |-> [role |-> row.role]]

MemberInit ==
    /\ memberships = {}
    /\ auditEvents = <<>>
    /\ groups \in SUBSET CreateRoles
    /\ userGroups = {}
    /\ pc = [w \in Creators |-> "idle"]
    /\ req = [w \in Creators |-> NoMembership]
    /\ RBACQuiet
    /\ GuardQuiet
    /\ EnrollQuiet

\* Membership.save, line 77: super().save() sends the INSERT
Insert(w) ==
    /\ pc[w] = "idle"
    /\ \E user \in Users, organization \in CreateOrgs, role \in CreateRoles :
         LET row == [pk |-> w, user |-> user, organization |-> organization, role |-> role]
         IN  /\ req' = [req EXCEPT ![w] = row]
             /\ IF unique_violation(memberships, row)
                THEN /\ pc' = [pc EXCEPT ![w] = "IntegrityError"]
                     /\ UNCHANGED memberships
                ELSE /\ pc' = [pc EXCEPT ![w] = "post_save"]
                     /\ memberships' = memberships \cup {row}
    /\ UNCHANGED <<auditEvents, groups, userGroups, rbacVars, guardVars, enrollVars>>

\* the post_save signal inside super().save(): handle_membership_created(created=True)
PostSave(w) ==
    /\ pc[w] = "post_save"
    /\ auditEvents' = Append(auditEvents, MembershipCreatedEvent(req[w]))
    /\ pc' = [pc EXCEPT ![w] = "sync"]
    /\ UNCHANGED <<memberships, req, groups, userGroups, rbacVars, guardVars, enrollVars>>

\* Membership._sync_user_groups: Group.DoesNotExist is passed over
SyncUserGroups(w) ==
    /\ pc[w] = "sync"
    /\ userGroups' = IF req[w].role \in groups
                     THEN userGroups \cup {<<req[w].user, req[w].role>>}
                     ELSE userGroups
    /\ pc' = [pc EXCEPT ![w] = "done"]
    /\ UNCHANGED <<memberships, auditEvents, req, groups, rbacVars, guardVars, enrollVars>>

MemberNext == \E w \in Creators : Insert(w) \/ PostSave(w) \/ SyncUserGroups(w)

SpecMembership == MemberInit /\ [][MemberNext]_vars

CreatedEvents == {i \in 1 .. Len(auditEvents) : auditEvents[i].event = "membership_created"}

\* C6: in every reachable state, under any interleaving of concurrent Membership creation
\* requests, there is at most one Membership per (user, organization); an attempt for a
\* pair that already has a Membership fails with a uniqueness violation and adds no
\* Membership, no membership_created AuditEvent and no group assignment.
C6_UniqueMembership ==
    /\ UniqueTogether(memberships)
    /\ \A w \in Creators :
         /\ pc[w] = "IntegrityError" =>
               /\ ~ \E m \in memberships : m.pk = w
               /\ \E m \in memberships :
                     m.user = req[w].user /\ m.organization = req[w].organization
         /\ pc[w] \in {"post_save", "sync", "done"} => req[w] \in memberships
    /\ Cardinality(memberships) = Cardinality({w \in Creators : pc[w] \in {"post_save", "sync", "done"}})
    /\ Cardinality(CreatedEvents) = Cardinality({w \in Creators : pc[w] \in {"sync", "done"}})
    /\ userGroups \subseteq {<<req[w].user, req[w].role>> : w \in {x \in Creators : pc[x] = "done"}}

\* C6 witness: two requests for one pair; one went through, the other failed.
C6_Witness ==
    /\ pc[1] = "done"
    /\ pc[2] = "IntegrityError"
    /\ req[1].user = req[2].user
    /\ req[1].role # req[2].role
    /\ memberships = {req[1]}
    /\ Len(auditEvents) = 1
    /\ userGroups = {<<req[1].user, req[1].role>>}

----------------------------------------------------------------------------
(* broker_console: EmployeeEnrollment, PlanEnrollment, EnrollmentEvent and the      *)
(* start_enrollment / submit_enrollment / approve_enrollment / terminate endpoints. *)
(* One request is served at a time; request.user is an authenticated user.          *)

\* a DateTimeField that is null
NullTime == 0

\* the clock runs from 1 to MaxClock
MaxClock == 2

\* The EnrollmentEvent table is followed up to this many rows
MaxEvents == 2

\* EmployeeEnrollment.STATUS_CHOICES
EnrollmentStatus == {"not_started", "in_progress", "submitted", "approved", "declined",
                     "expired"}

\* PlanEnrollment.STATUS_CHOICES
PlanStatus == {"enrolled", "waived", "declined", "terminated"}

\* EnrollmentPeriod rows: name -> coverage_effective_date, start_date
EnrollmentPeriods ==
    [ P1 |-> [coverage_effective_date |-> "2025-01-01", start_date |-> "2024-11-01"] ]

\* The foreign keys of the EmployeeEnrollment rows (unique per employee and period)
EnrollmentRows ==
    [ ee1 |-> [employee |-> "emp1", enrollment_period |-> "P1"] ]

EnrollmentIds == DOMAIN EnrollmentRows

\* The foreign keys of the PlanEnrollment rows
PlanEnrollmentRows ==
    [ pe1 |-> [employee_enrollment |-> "ee1", plan |-> "plan1"] ]

PlanEnrollmentIds == DOMAIN PlanEnrollmentRows

\* A new EmployeeEnrollment: status defaults to not_started, the tracking fields are null
FreshEnrollment ==
    [status |-> "not_started", started_at |-> NullTime, submitted_at |-> NullTime,
     approved_at |-> NullTime, approved_by |-> None]

\* A new PlanEnrollment: status defaults to enrolled, termination_date is null
FreshPlanEnrollment == [status |-> "enrolled", termination_date |-> None]

\* start_enrollment answers in every status
can_start_always(status) == TRUE

\* start_enrollment, line 577
can_start(status) == status = "not_started"

\* submit_enrollment, line 589
can_submit(status) == status = "in_progress"

\* approve_enrollment, line 610
can_approve(status) == status = "submitted"

\* start_enrollment, lines 578-580
started(enr, t) == [enr EXCEPT !.status = "in_progress", !.started_at = t]

\* submit_enrollment, lines 590-592
submitted(enr, t) == [enr EXCEPT !.status = "submitted", !.submitted_at = t]

\* approve_enrollment that does not record the approver
approved_without_approver(enr, t, user) ==
    [enr EXCEPT !.status = "approved", !.approved_at = t]

\* approve_enrollment, lines 611-614
approved(enr, t, user) ==
    [enr EXCEPT !.status = "approved", !.approved_at = t, !.approved_by = user]

\* an enrollment event dated by the period's start
SubmitEventAtPeriodStart(e) ==
    [employee |-> EnrollmentRows[e].employee,
     event_type |-> "enrollment",
     effective_date |-> EnrollmentPeriods[EnrollmentRows[e].enrollment_period].start_date,
     plan_enrollment |-> None,
     reason |-> <<"Enrollment submitted for period", EnrollmentRows[e].enrollment_period>>,
     processed_by |-> None]

\* submit_enrollment, lines 595-600: EnrollmentEvent.objects.create(...)
SubmitEvent(e) ==
    [employee |-> EnrollmentRows[e].employee,
     event_type |-> "enrollment",
     effective_date |->
         EnrollmentPeriods[EnrollmentRows[e].enrollment_period].coverage_effective_date,
     plan_enrollment |-> None,
     reason |-> <<"Enrollment submitted for period", EnrollmentRows[e].enrollment_period>>,
     processed_by |-> None]

\* a termination event that does not name the plan enrollment
TerminationEventUnlinked(pe, termination_date, reason, user) ==
    [employee |-> EnrollmentRows[PlanEnrollmentRows[pe].employee_enrollment].employee,
     event_type |-> "termination",
     effective_date |-> termination_date,
     plan_enrollment |-> None,
     reason |-> reason,
     processed_by |-> user]

\* terminate, lines 656-663: EnrollmentEvent.objects.create(...)
TerminationEvent(pe, termination_date, reason, user) ==
    [employee |-> EnrollmentRows[PlanEnrollmentRows[pe].employee_enrollment].employee,
     event_type |-> "termination",
     effective_date |-> termination_date,
     plan_enrollment |-> pe,
     reason |-> reason,
     processed_by |-> user]

\* request.data.get('termination_date'): absent, empty, or a date
TerminationDates == {None, "", "2025-03-31"}

\* terminate, line 648: not termination_date
date_missing(termination_date) == termination_date \in {None, ""}

\* request.data.get('reason', 'Manual termination'): the default
Reasons == {"Manual termination"}

EnrollInit ==
    /\ enrollments = [e \in EnrollmentIds |-> FreshEnrollment]
    /\ planEnrollments = [pe \in PlanEnrollmentIds |-> FreshPlanEnrollment]
    /\ enrollmentEvents = <<>>
    /\ now = 1
    /\ response = Idle
    /\ submissions = <<>>
    /\ employees = <<>>
    /\ auditEvents = <<>>
    /\ memberships = {}
    /\ RBACQuiet
    /\ GuardQuiet
    /\ MemberQuiet

EnrollFrame ==
    UNCHANGED <<submissions, employees, auditEvents, memberships, rbacVars, guardVars,
                memberVars>>

\* EmployeeEnrollmentViewSet.start_enrollment
StartEnrollment ==
    /\ response = Idle
    /\ \E e \in EnrollmentIds, user \in Users :
         IF can_start(enrollments[e].status)
         THEN /\ enrollments' = [enrollments EXCEPT ![e] = started(@, now)]
              /\ response' = [op |-> "start_enrollment", target |-> e, user |-> user,
                              status |-> 200]
         ELSE /\ response' = [op |-> "start_enrollment", target |-> e, user |-> user,
                              status |-> 400]
              /\ UNCHANGED enrollments
    /\ UNCHANGED <<planEnrollments, enrollmentEvents, now>>
    /\ EnrollFrame

\* EmployeeEnrollmentViewSet.submit_enrollment
SubmitEnrollment ==
    /\ response = Idle
    /\ \E e \in EnrollmentIds, user \in Users :
         IF can_submit(enrollments[e].status)
         THEN /\ Len(enrollmentEvents) < MaxEvents
              /\ enrollments' = [enrollments EXCEPT ![e] = submitted(@, now)]
              /\ enrollmentEvents' = Append(enrollmentEvents, SubmitEvent(e))
              /\ response' = [op |-> "submit_enrollment", target |-> e, user |-> user,
                              status |-> 200]
         ELSE /\ response' = [op |-> "submit_enrollment", target |-> e, user |-> user,
                              status |-> 400]
              /\ UNCHANGED <<enrollments, enrollmentEvents>>
    /\ UNCHANGED <<planEnrollments, now>>
    /\ EnrollFrame

\* EmployeeEnrollmentViewSet.approve_enrollment
ApproveEnrollment ==
    /\ response = Idle
    /\ \E e \in EnrollmentIds, user \in Users :
         IF can_approve(enrollments[e].status)
         THEN /\ enrollments' = [enrollments EXCEPT ![e] = approved(@, now, user)]
              /\ response' = [op |-> "approve_enrollment", target |-> e, user |-> user,
                              status |-> 200]
         ELSE /\ response' = [op |-> "approve_enrollment", target |-> e, user |-> user,
                              status |-> 400]
              /\ UNCHANGED enrollments
    /\ UNCHANGED <<planEnrollments, enrollmentEvents, now>>
    /\ EnrollFrame

\* PlanEnrollmentViewSet.terminate
Terminate ==
    /\ response = Idle
    /\ \E pe \in PlanEnrollmentIds, user \in Users, termination_date \in TerminationDates,
          reason \in Reasons :
         IF date_missing(termination_date)
         THEN /\ response' = [op |-> "terminate", target |-> pe, user |-> user,
                              termination_date |-> termination_date, status |-> 400]
              /\ UNCHANGED <<planEnrollments, enrollmentEvents>>
         ELSE /\ Len(enrollmentEvents) < MaxEvents
              /\ planEnrollments' = [planEnrollments EXCEPT
                                        ![pe].status = "terminated",
                                        ![pe].termination_date = termination_date]
              /\ enrollmentEvents' = Append(enrollmentEvents,
                                        TerminationEvent(pe, termination_date, reason, user))
              /\ response' = [op |-> "terminate", target |-> pe, user |-> user,
                              termination_date |-> termination_date, status |-> 200]
    /\ UNCHANGED <<enrollments, now>>
    /\ EnrollFrame

\* ModelViewSet.partial_update of an EmployeeEnrollment (the serializer exposes every
\* field): the administrative change of status, which is how declined and expired arise
UpdateEnrollmentStatus ==
    /\ response = Idle
    /\ \E e \in EnrollmentIds, user \in Users, status \in EnrollmentStatus :
         /\ enrollments' = [enrollments EXCEPT ![e].status = status]
         /\ response' = [op |-> "partial_update", target |-> e, user |-> user,
                         status |-> 200]
    /\ UNCHANGED <<planEnrollments, enrollmentEvents, now>>
    /\ EnrollFrame

\* ModelViewSet.partial_update of a PlanEnrollment: the change of status
UpdatePlanEnrollmentStatus ==
    /\ response = Idle
    /\ \E pe \in PlanEnrollmentIds, user \in Users, status \in PlanStatus :
         /\ planEnrollments' = [planEnrollments EXCEPT ![pe].status = status]
         /\ response' = [op |-> "partial_update_plan", target |-> pe, user |-> user,
                         status |-> 200]
    /\ UNCHANGED <<enrollments, enrollmentEvents, now>>
    /\ EnrollFrame

\* the response is sent
EnrollReturn ==
    /\ response # Idle
    /\ response' = Idle
    /\ UNCHANGED <<enrollments, planEnrollments, enrollmentEvents, now>>
    /\ EnrollFrame

\* time passes between requests
Tick ==
    /\ response = Idle
    /\ now < MaxClock
    /\ now' = now + 1
    /\ UNCHANGED <<enrollments, planEnrollments, enrollmentEvents, response>>
    /\ EnrollFrame

EnrollNext ==
    \/ StartEnrollment
    \/ SubmitEnrollment
    \/ ApproveEnrollment
    \/ Terminate
    \/ UpdateEnrollmentStatus
    \/ UpdatePlanEnrollmentStatus
    \/ EnrollReturn
    \/ Tick

SpecEnroll == EnrollInit /\ [][EnrollNext]_vars

\* The endpoints alone, without partial_update: the states a fresh enrollment reaches
\* by start, submit and approve
EnrollActionsNext ==
    \/ StartEnrollment
    \/ SubmitEnrollment
    \/ ApproveEnrollment
    \/ Terminate
    \/ EnrollReturn
    \/ Tick

SpecEnrollActions == EnrollInit /\ [][EnrollActionsNext]_vars

----------------------------------------------------------------------------
(* Claims about the enrollment endpoints *)

EndpointOps == {"start_enrollment", "submit_enrollment", "approve_enrollment"}

\* the status each endpoint requires and the status it sets
EndpointFrom ==
    [start_enrollment |-> "not_started", submit_enrollment |-> "in_progress",
     approve_enrollment |-> "submitted"]

EndpointTo ==
    [start_enrollment |-> "in_progress", submit_enrollment |-> "submitted",
     approve_enrollment |-> "approved"]

\* C7: start_enrollment succeeds only from not_started, submit_enrollment only from
\* in_progress, approve_enrollment only from submitted, each moving the enrollment one
\* step along not_started -> in_progress -> submitted -> approved; invoked in any other
\* status the endpoint answers 400 and the enrollment and the event log stay as they were
C7_TransitionsGuarded ==
    [][ (response = Idle /\ response' # Idle /\ response'.op \in EndpointOps) =>
          LET e == response'.target
              op == response'.op
          IN  IF enrollments[e].status = EndpointFrom[op]
              THEN /\ response'.status = 200
                   /\ enrollments'[e].status = EndpointTo[op]
              ELSE /\ response'.status = 400
                   /\ enrollments' = enrollments
                   /\ enrollmentEvents' = enrollmentEvents
                   /\ planEnrollments' = planEnrollments ]_vars

\* submit_enrollment was refused for an enrollment that is declined
C7_Witness ==
    /\ response # Idle
    /\ response.op = "submit_enrollment"
    /\ response.status = 400
    /\ enrollments[response.target].status = "declined"
    /\ enrollmentEvents = <<>>

\* C8: in an enrollment driven from not_started by the three endpoints alone, started_at
\* is set from in_progress on, submitted_at from submitted on, approved_at and
\* approved_by when approved, approved_by being the user who approved; a tracking field
\* that is set is never written again
C8_TrackingFields ==
    [][ \A e \in EnrollmentIds :
          LET old == enrollments[e]
              new == enrollments'[e]
          IN  /\ new.status \in {"in_progress", "submitted", "approved"}
                    => new.started_at # NullTime
              /\ new.status \in {"submitted", "approved"} => new.submitted_at # NullTime
              /\ new.status = "approved"
                    => new.approved_at # NullTime /\ new.approved_by \in Users
              /\ (response' # Idle /\ response'.op = "approve_enrollment"
                    /\ response'.status = 200 /\ response'.target = e)
                    => new.approved_by = response'.user /\ new.approved_at = now
              /\ old.started_at # NullTime => new.started_at = old.started_at
              /\ old.submitted_at # NullTime => new.submitted_at = old.submitted_at
              /\ old.approved_at # NullTime => new.approved_at = old.approved_at
              /\ old.approved_by # None => new.approved_by = old.approved_by ]_vars

\* an enrollment started at 1, submitted at 2 and approved by u2, seen after the
\* approval was answered and a second approval was refused
C8_Witness ==
    /\ enrollments["ee1"].status = "approved"
    /\ enrollments["ee1"].started_at = 1
    /\ enrollments["ee1"].submitted_at = 2
    /\ enrollments["ee1"].approved_at = 2
    /\ enrollments["ee1"].approved_by = "u2"
    /\ response # Idle
    /\ response.op = "approve_enrollment"
    /\ response.status = 400
    /\ response.user = "u1"

\* C9: a submit_enrollment that succeeds appends exactly one EnrollmentEvent, of type
\* enrollment, for the enrollment's employee, effective on the coverage effective date
\* of the enrollment's period; a submit_enrollment that fails appends none
C9_SubmitEvent ==
    [][ (response = Idle /\ response' # Idle /\ response'.op = "submit_enrollment") =>
          LET e == response'.target
              period == EnrollmentPeriods[EnrollmentRows[e].enrollment_period]
          IN  IF response'.status = 200
              THEN /\ Len(enrollmentEvents') = Len(enrollmentEvents) + 1
                   /\ SubSeq(enrollmentEvents', 1, Len(enrollmentEvents)) = enrollmentEvents
                   /\ LET ev == enrollmentEvents'[Len(enrollmentEvents')]
                      IN  /\ ev.event_type = "enrollment"
                          /\ ev.employee = EnrollmentRows[e].employee
                          /\ ev.effective_date = period.coverage_effective_date
              ELSE enrollmentEvents' = enrollmentEvents ]_vars

\* a submission was accepted and logged, and after a change of status back to
\* in_progress a second one was accepted and logged again
C9_Witness ==
    /\ response # Idle
    /\ response.op = "submit_enrollment"
    /\ response.status = 200
    /\ Len(enrollmentEvents) = 2
    /\ \A i \in 1 .. 2 : enrollmentEvents[i].event_type = "enrollment"
    /\ enrollments["ee1"].status = "submitted"

----------------------------------------------------------------------------
(* SpecSave: Membership saves served one at a time: Membership.objects.create, save() *)
(* of an existing row, and MembershipAdmin.save_model (add and change forms).         *)
(* req holds the request being answered.                                              *)

\* The users whose memberships are saved, and the staff users who use the admin
SaveMembers == {"u1"}

AdminUsers == Users

SaveOrgs == GuardOrgs

SaveRoles == CreateRoles

\* the primary key the store gives to the next row
NextPk(ms) == IF ms = {} THEN 1 ELSE 1 + (CHOOSE p \in {m.pk : m \in ms} : \A m \in ms : m.pk <= p)

\* Membership.objects.get(pk=...)
MembershipByPk(ms, pk) == CHOOSE m \in ms : m.pk = pk

\* handle_membership_created, the branch created = False, lines 171-182
RoleChangeEvent(old_instance, instance) ==
    [user |-> instance.user, event |-> "role_change", organization |-> instance.organization,
     metadata |-> [old_role |-> old_instance.role, new_role |-> instance.role]]

\* handle_membership_created: the events the post_save receiver creates; ms is the
\* table as the receiver finds it, that is after Model.save wrote the row
handle_membership_created(ms, instance, created) ==
    IF created
    THEN <<MembershipCreatedEvent(instance)>>
    ELSE IF \E m \in ms : m.pk = instance.pk
    THEN LET old_instance == MembershipByPk(ms, instance.pk)
         IN  IF old_instance.role # instance.role
             THEN <<RoleChangeEvent(old_instance, instance)>>
             ELSE <<>>
    ELSE <<>>

\* a group sync that creates the missing group
sync_user_groups_creating(gs, ugs, instance) ==
    [groups |-> gs \cup {instance.role}, userGroups |-> ugs \cup {<<instance.user, instance.role>>}]

\* Membership._sync_user_groups, lines 81-91
sync_user_groups(gs, ugs, instance) ==
    IF instance.role \in gs
    THEN [groups |-> gs, userGroups |-> ugs \cup {<<instance.user, instance.role>>}]
    ELSE [groups |-> gs, userGroups |-> ugs]

\* Model.save: INSERT of a new row, UPDATE of the row with the instance's pk
WriteRow(ms, instance) == {m \in ms : m.pk # instance.pk} \cup {instance}

\* Membership.save, lines 76-79: the write, the post_save receiver, the group sync
membership_save(ms, gs, ugs, instance, created) ==
    LET written == WriteRow(ms, instance)
        synced == sync_user_groups(gs, ugs, instance)
    IN  [memberships |-> written,
         events |-> handle_membership_created(written, instance, created),
         groups |-> synced.groups,
         userGroups |-> synced.userGroups]

\* MembershipAdmin.save_model, lines 214-232: the AuditEvent the admin creates
admin_event(admin, obj, change, old_role) ==
    << [user |-> admin,
        event |-> IF change /\ old_role # obj.role THEN "role_changed"
                  ELSE IF change THEN "membership_updated" ELSE "membership_created",
        organization |-> obj.organization,
        metadata |-> IF change /\ old_role # obj.role
                     THEN [user |-> obj.user, role |-> obj.role, admin_action |-> TRUE,
                           old_role |-> old_role]
                     ELSE [user |-> obj.user, role |-> obj.role, admin_action |-> TRUE]] >>

SaveInit ==
    /\ memberships = {}
    /\ auditEvents = <<>>
    /\ groups \in SUBSET SaveRoles
    /\ userGroups = {}
    /\ pc = <<>>
    /\ req = Idle
    /\ RBACQuiet
    /\ GuardQuiet
    /\ EnrollQuiet

SaveFrame == UNCHANGED <<pc, rbacVars, guardVars, enrollVars>>

\* the effects of one Membership.save, followed by the events of the caller
ApplySave(instance, created, more_events, request) ==
    LET saved == membership_save(memberships, groups, userGroups, instance, created)
    IN  /\ Len(auditEvents) + Len(saved.events) + Len(more_events) <= MaxAuditEvents
        /\ memberships' = saved.memberships
        /\ auditEvents' = auditEvents \o saved.events \o more_events
        /\ groups' = saved.groups
        /\ userGroups' = saved.userGroups
        /\ req' = request

\* Membership.objects.create(user=, organization=, role=)
OrmCreate ==
    /\ req = Idle
    /\ \E user \in SaveMembers, organization \in SaveOrgs, role \in SaveRoles :
         LET instance == [pk |-> NextPk(memberships), user |-> user,
                          organization |-> organization, role |-> role]
         IN  IF unique_violation(memberships, instance)
             THEN /\ req' = [op |-> "create", instance |-> instance, old_role |-> None,
                             admin |-> None, outcome |-> "IntegrityError"]
                  /\ UNCHANGED <<memberships, auditEvents, groups, userGroups>>
             ELSE ApplySave(instance, TRUE, <<>>,
                            [op |-> "create", instance |-> instance, old_role |-> None,
                             admin |-> None, outcome |-> "saved"])
    /\ SaveFrame

\* membership.role = role; membership.save() on a row read from the table
OrmSave ==
    /\ req = Idle
    /\ \E m \in memberships, role \in SaveRoles :
         ApplySave([m EXCEPT !.role = role], FALSE, <<>>,
                   [op |-> "save", instance |-> [m EXCEPT !.role = role],
                    old_role |-> m.role, admin |-> None, outcome |-> "saved"])
    /\ SaveFrame

\* MembershipAdmin.save_model from the add form (change = False); the form's
\* validate_unique refuses a pair that exists before save_model is called
AdminAdd ==
    /\ req = Idle
    /\ \E admin \in AdminUsers, user \in SaveMembers, organization \in SaveOrgs,
          role \in SaveRoles :
         LET instance == [pk |-> NextPk(memberships), user |-> user,
                          organization |-> organization, role |-> role]
         IN  /\ ~unique_violation(memberships, instance)
             /\ ApplySave(instance, TRUE, admin_event(admin, instance, FALSE, None),
                          [op |-> "admin_add", instance |-> instance, old_role |-> None,
                           admin |-> admin, outcome |-> "saved"])
    /\ SaveFrame

\* MembershipAdmin.save_model from the change form (change = True)
AdminChange ==
    /\ req = Idle
    /\ \E admin \in AdminUsers, m \in memberships, role \in SaveRoles :
         LET old_role == MembershipByPk(memberships, m.pk).role
             obj == [m EXCEPT !.role = role]
         IN  ApplySave(obj, FALSE, admin_event(admin, obj, TRUE, old_role),
                       [op |-> "admin_change", instance |-> obj, old_role |-> old_role,
                        admin |-> admin, outcome |-> "saved"])
    /\ SaveFrame

\* the response is sent
SaveReturn ==
    /\ req # Idle
    /\ req' = Idle
    /\ UNCHANGED <<memberships, auditEvents, groups, userGroups>>
    /\ SaveFrame

SaveNext ==
    \/ OrmCreate
    \/ OrmSave
    \/ AdminAdd
    \/ AdminChange
    \/ SaveReturn

SpecSave == SaveInit /\ [][SaveNext]_vars

\* the AuditEvent rows a step added
NewEvents == SubSeq(auditEvents', Len(auditEvents) + 1, Len(auditEvents'))

\* C11: saving an existing Membership whose role was changed from r1 to r2 creates
\* exactly one AuditEvent of kind role_change for the membership's user and organization
\* with old_role = r1 and new_role = r2 in its metadata; a save that does not change the
\* role creates no role_change event
C11_RoleChangeAudited ==
    [][ (req = Idle /\ req' # Idle /\ req'.op \in {"save", "admin_change"}) =>
          LET changes == {i \in 1 .. Len(NewEvents) : NewEvents[i].event = "role_change"}
          IN  IF req'.old_role # req'.instance.role
              THEN /\ Cardinality(changes) = 1
                   /\ \A i \in changes :
                        /\ NewEvents[i].user = req'.instance.user
                        /\ NewEvents[i].organization = req'.instance.organization
                        /\ NewEvents[i].metadata.old_role = req'.old_role
                        /\ NewEvents[i].metadata.new_role = req'.instance.role
              ELSE changes = {} ]_vars

\* a save changed the role of a membership and the log has no role_change event
C11_RoleChangeNotAudited ==
    /\ req # Idle
    /\ req.op = "save"
    /\ req.old_role = "employee"
    /\ req.instance.role = "broker_admin"
    /\ req.instance \in memberships
    /\ \A i \in 1 .. Len(auditEvents) : auditEvents[i].event # "role_change"

\* C12: every creation of a Membership, through Membership.objects.create or through
\* the admin's add form, adds exactly one AuditEvent, of kind membership_created, with
\* the membership's user and organization
C12_OneCreatedEvent ==
    [][ (req = Idle /\ req' # Idle /\ req'.op \in {"create", "admin_add"}
           /\ req'.outcome = "saved") =>
          /\ Len(NewEvents) = 1
          /\ NewEvents[1].event = "membership_created"
          /\ NewEvents[1].user = req'.instance.user
          /\ NewEvents[1].organization = req'.instance.organization ]_vars

\* the admin u2 added a membership of u1 and the log got two membership_created events,
\* one for u1 and one for u2
C12_AdminAddTwoEvents ==
    /\ req # Idle
    /\ req.op = "admin_add"
    /\ req.admin = "u2"
    /\ Len(auditEvents) = 2
    /\ auditEvents[1].event = "membership_created"
    /\ auditEvents[1].user = "u1"
    /\ auditEvents[2].event = "membership_created"
    /\ auditEvents[2].user = "u2"

\* C13: after a successful Membership save with role r the user is in the group named r
\* when that group exists; when it does not exist the save still succeeds, the user's
\* groups are unchanged and no group is created
C13_GroupSync ==
    [][ (req = Idle /\ req' # Idle /\ req'.outcome = "saved") =>
          LET instance == req'.instance
          IN  /\ instance \in memberships'
              /\ groups' = groups
              /\ IF instance.role \in groups
                 THEN userGroups' = userGroups \cup {<<instance.user, instance.role>>}
                 ELSE userGroups' = userGroups ]_vars

\* only the group employee exists: u1 was created as employee and joined the group, then
\* the role was set to broker_admin, the save succeeded and the groups stayed as they were
C13_Witness ==
    /\ req # Idle
    /\ req.op = "save"
    /\ req.outcome = "saved"
    /\ req.instance.role = "broker_admin"
    /\ req.instance \in memberships
    /\ groups = {"employee"}
    /\ userGroups = {<<"u1", "employee">>}

----------------------------------------------------------------------------
(* Claims on organization access and queryset filtering, under SpecRBAC *)

BrokerFamily == {"broker_admin", "broker_user"}

EmployerFamily == {"employer_admin", "employer_hr"}

ScopedActions == {"create", "update", "delete", "manage"}

\* the ids of the employers a broker organization sponsors
SponsoredBy(broker) == {e.id : e \in {x \in EmployerRows : x.broker = broker}}

\* C14: for every actor with a broker-family role and an assigned organization B,
\* get_accessible_organizations is exactly B together with the ids of the employers
\* sponsored by B
C14_BrokerAccessible ==
    (call.op = "get_accessible_organizations" /\ profile.role \in BrokerFamily
       /\ profile.organization # None)
    => ids_of(call.result) = {profile.organization} \cup SponsoredBy(profile.organization)

\* a broker_admin whose assigned organization is the employer E1 got the empty list
C14_BrokerOfEmployerOrg ==
    /\ call.op = "get_accessible_organizations"
    /\ profile = [role |-> "broker_admin", organization |-> "E1"]
    /\ call.result = {}

\* C15: get_accessible_organizations returns, for a super_admin, the set of all active
\* organizations; for a role that is neither super_admin nor broker-family with an
\* assigned organization, that one organization; and for an actor other than super_admin
\* with no assigned organization, the empty set
C15_AccessibleOrganizations ==
    call.op = "get_accessible_organizations" /\ HasProfile(profile) =>
        /\ profile.role = "super_admin" =>
              ids_of(call.result) = {o.id : o \in {x \in Organizations : x.is_active}}
        /\ (profile.role \notin BrokerFamily \cup {"super_admin"}
              /\ profile.organization # None) =>
              ids_of(call.result) = {profile.organization}
        /\ (profile.role # "super_admin" /\ profile.organization = None) =>
              call.result = {}

\* a super_admin assigned to the inactive broker B2 got the three active organizations
C15_Witness ==
    /\ call.op = "get_accessible_organizations"
    /\ profile = [role |-> "super_admin", organization |-> "B2"]
    /\ ids_of(call.result) = {"B1", "E1", "E2"}

\* C16: for a broker-family actor, an action of the actor's table among create, update,
\* delete, manage, and a supplied organization context O, has_permission returns true
\* if and only if O is in get_accessible_organizations(actor)
C16_BrokerScope ==
    (IsHasPermission /\ profile.role \in BrokerFamily
       /\ call.action \in ScopedActions
       /\ table_allows(profile.role, call.resource, call.action)
       /\ call.organization_id # None)
    => (call.result <=>
          call.organization_id \in ids_of(get_accessible_organizations(profile)))

\* the broker_admin of B1 was refused an update of employers in its own organization B1
C16_OwnOrganizationDenied ==
    /\ IsHasPermission
    /\ profile = [role |-> "broker_admin", organization |-> "B1"]
    /\ call.resource = "employers"
    /\ call.action = "update"
    /\ call.organization_id = "B1"
    /\ call.result = FALSE
    /\ "B1" \in ids_of(get_accessible_organizations(profile))

\* C17: for an actor whose role is neither super_admin nor broker-family, an action of
\* the actor's table among create, update, delete, manage, and a supplied organization
\* context O, has_permission returns true if and only if the actor has an assigned
\* organization and it equals O
C17_OwnOrganizationScope ==
    (IsHasPermission /\ HasProfile(profile)
       /\ profile.role \notin BrokerFamily \cup {"super_admin"}
       /\ call.action \in ScopedActions
       /\ table_allows(profile.role, call.resource, call.action)
       /\ call.organization_id # None)
    => (call.result <=>
          (profile.organization # None /\ profile.organization = call.organization_id))

\* an employer_admin with no assigned organization was allowed to update employees of E1
C17_NoOrganizationAllowed ==
    /\ IsHasPermission
    /\ profile = [role |-> "employer_admin", organization |-> None]
    /\ call.resource = "employees"
    /\ call.action = "update"
    /\ call.organization_id = "E1"
    /\ call.result = TRUE

IsFilter == call.op = "filter_queryset_by_permissions"

\* C18: filter_queryset_by_permissions for resource employees returns, for the role
\* employee, only records owned by the actor, and for every other role but super_admin
\* exactly the input records whose employer id is in get_accessible_organizations(actor);
\* the result is always a subset of the input
C18_EmployeesFilter ==
    (IsFilter /\ call.resource = "employees" /\ HasProfile(profile)) =>
        LET rows == QuerySets[call.queryset].rows
            accessible == ids_of(get_accessible_organizations(profile))
        IN  /\ call.result \subseteq rows
            /\ ~call.raised
            /\ profile.role = "employee" =>
                  call.result = {r \in rows : /\ "user" \in DOMAIN r
                                              /\ r.user = RequestUser}
            /\ profile.role \notin {"employee", "super_admin"} =>
                  call.result = {r \in rows : /\ "employer_id" \in DOMAIN r
                                              /\ r.employer_id \in accessible}

\* an employer_admin assigned to E1 got, of the three employees, the one of employer E1
C18_Witness ==
    /\ IsFilter
    /\ call.resource = "employees"
    /\ call.queryset = "employees"
    /\ profile = [role |-> "employer_admin", organization |-> "E1"]
    /\ call.result = {[id |-> "emp1", employer_id |-> "E1"]}

\* C19: filter_queryset_by_permissions for resource employers returns, for a
\* broker-family actor, exactly the employers whose broker is the actor's organization,
\* for an employer-family actor exactly the employer whose id is the actor's
\* organization id, and for a super_admin the input unchanged; no other actor receives
\* an employer outside get_accessible_organizations(actor)
C19_EmployersFilter ==
    (IsFilter /\ call.resource = "employers" /\ HasProfile(profile)) =>
        LET rows == QuerySets[call.queryset].rows
            accessible == ids_of(get_accessible_organizations(profile))
        IN  /\ ~call.raised
            /\ profile.role = "super_admin" => call.result = rows
            /\ profile.role \in BrokerFamily =>
                  call.result = {r \in rows : /\ "broker" \in DOMAIN r
                                              /\ r.broker = profile.organization}
            /\ profile.role \in EmployerFamily =>
                  call.result = {r \in rows : r.id = profile.organization}
            /\ (profile.role # "super_admin" /\ call.queryset = "employers") =>
                  \A r \in call.result : r.id \in accessible

\* a broker_user of B1 got the two employers B1 sponsors and not E3
C19_Witness ==
    /\ IsFilter
    /\ call.resource = "employers"
    /\ call.queryset = "employers"
    /\ profile = [role |-> "broker_user", organization |-> "B1"]
    /\ call.result = {[id |-> "E1", broker |-> "B1"], [id |-> "E2", broker |-> "B1"]}

----------------------------------------------------------------------------
(* SpecAudit: the AuditEvent table under the operations that reach it: the receivers *)
(* that record events, AuditLogListView, AuditEventAdmin, and the deletion of a User  *)
(* through UserAdmin.  auditEvents[pk] is the row with primary key pk; DeletedRow     *)
(* stands where a row was deleted.  req holds the request being answered.             *)

DeletedRow == [deleted |-> TRUE]

\* the HTTP methods a client sends to audit-logs/
HttpMethods == {"GET", "POST", "PUT", "PATCH", "DELETE"}

\* log_user_login / log_user_logout: AuditEvent.objects.create(user=user, event=...)
SessionEvent(user, event) ==
    [user |-> user, event |-> event, organization |-> None, metadata |-> [email |-> user]]

\* AuditEventAdmin.has_add_permission
has_add_permission(admin) == FALSE

\* AuditEventAdmin.has_change_permission
has_change_permission(admin) == FALSE

\* AuditEventAdmin.has_delete_permission
has_delete_permission(admin, supers) == admin \in supers

\* AuditEvent.user: on_delete=models.SET_NULL, applied to the rows of a deleted user
set_null_user(events, user) ==
    [pk \in 1 .. Len(events) |->
        IF events[pk] # DeletedRow /\ events[pk].user = user
        THEN [events[pk] EXCEPT !.user = None]
        ELSE events[pk]]

AuditInit ==
    /\ auditEvents = <<>>
    /\ users = Users
    /\ superusers \in SUBSET Users
    /\ guard = Idle
    /\ memberships = {}
    /\ groups = {}
    /\ userGroups = {}
    /\ pc = <<>>
    /\ req = Idle
    /\ RBACQuiet
    /\ EnrollQuiet

AuditFrame == UNCHANGED <<memberships, guard, groups, userGroups, pc, rbacVars, enrollVars>>

\* a user logs in or out: the receiver appends one row
RecordEvent ==
    /\ req = Idle
    /\ Len(auditEvents) < MaxAuditEvents
    /\ \E user \in users, event \in {"login", "logout"} :
         /\ auditEvents' = Append(auditEvents, SessionEvent(user, event))
         /\ req' = [op |-> event, user |-> user, pk |-> Len(auditEvents) + 1,
                    status |-> 200]
    /\ UNCHANGED <<users, superusers>>
    /\ AuditFrame

\* AuditLogListView (generics.ListAPIView): GET lists the rows, any other method is
\* answered 405; no method writes
AuditLogRequest ==
    /\ req = Idle
    /\ \E user \in users, method \in HttpMethods :
         req' = [op |-> "api_audit_logs", user |-> user, method |-> method,
                 pk |-> 0, status |-> IF method = "GET" THEN 200 ELSE 405]
    /\ UNCHANGED <<auditEvents, users, superusers>>
    /\ AuditFrame

\* AuditEventAdmin add and change views: refused for every user
AdminEditAuditEvent ==
    /\ req = Idle
    /\ \E admin \in users, view \in {"admin_add_auditevent", "admin_change_auditevent"} :
         /\ ~ (IF view = "admin_add_auditevent" THEN has_add_permission(admin)
               ELSE has_change_permission(admin))
         /\ req' = [op |-> view, user |-> admin, pk |-> 0, status |-> 403]
    /\ UNCHANGED <<auditEvents, users, superusers>>
    /\ AuditFrame

\* AuditEventAdmin delete view
AdminDeleteAuditEvent ==
    /\ req = Idle
    /\ \E admin \in users, pk \in 1 .. Len(auditEvents) :
         /\ auditEvents[pk] # DeletedRow
         /\ IF has_delete_permission(admin, superusers)
            THEN /\ auditEvents' = [auditEvents EXCEPT ![pk] = DeletedRow]
                 /\ req' = [op |-> "admin_delete_auditevent", user |-> admin, pk |-> pk,
                            status |-> 200]
            ELSE /\ req' = [op |-> "admin_delete_auditevent", user |-> admin, pk |-> pk,
                            status |-> 403]
                 /\ UNCHANGED auditEvents
    /\ UNCHANGED <<users, superusers>>
    /\ AuditFrame

\* UserAdmin delete view, used by a superuser: the User row goes and the foreign keys
\* that name it follow their on_delete rule
AdminDeleteUser ==
    /\ req = Idle
    /\ \E admin \in users \cap superusers, target \in users :
         /\ users' = users \ {target}
         /\ superusers' = superusers \ {target}
         /\ auditEvents' = set_null_user(auditEvents, target)
         /\ req' = [op |-> "admin_delete_user", user |-> admin, target |-> target,
                    pk |-> 0, status |-> 200]
    /\ AuditFrame

\* the response is sent
AuditReturn ==
    /\ req # Idle
    /\ req' = Idle
    /\ UNCHANGED <<auditEvents, users, superusers>>
    /\ AuditFrame

AuditNext ==
    \/ RecordEvent
    \/ AuditLogRequest
    \/ AdminEditAuditEvent
    \/ AdminDeleteAuditEvent
    \/ AdminDeleteUser
    \/ AuditReturn

SpecAudit == AuditInit /\ [][AuditNext]_vars

\* C20: the AuditEvent log is append-only: every AuditEvent ever created still exists
\* with unchanged actor, kind, organization and metadata, except for events a superuser
\* deleted through the admin; no other user and no API endpoint modifies or deletes one
C20_AppendOnly ==
    [][ /\ Len(auditEvents') >= Len(auditEvents)
        /\ \A pk \in 1 .. Len(auditEvents) :
             \/ auditEvents'[pk] = auditEvents[pk]
             \/ /\ auditEvents'[pk] = DeletedRow
                /\ req'.op = "admin_delete_auditevent"
                /\ req'.pk = pk
                /\ req'.user \in superusers ]_vars

\* u1 logged in, the superuser u2 deleted the user u1 through the admin, and the login
\* event is still in the table but names no actor
C20_ActorErased ==
    /\ req # Idle
    /\ req.op = "admin_delete_user"
    /\ req.user = "u2"
    /\ req.target = "u1"
    /\ Len(auditEvents) >= 1
    /\ auditEvents[1] = [user |-> None, event |-> "login", organization |-> None,
                         metadata |-> [email |-> "u1"]]

----------------------------------------------------------------------------
(* SpecEvents: the EnrollmentEvent table under the API: the endpoints that create    *)
(* events, the ModelViewSet routes of enrollment-events/ and the deletion of a       *)
(* PlanEnrollment.  enrollmentEvents[pk] is the row with key pk; DeletedRow stands   *)
(* where a row was deleted, in both tables.                                          *)

\* EnrollmentEvent.EVENT_TYPES
EventTypes == {"enrollment", "change", "termination", "reinstatement", "dependent_add",
               "dependent_remove", "waiver"}

\* the bodies of the PATCH requests to enrollment-events/<pk>/
EventPatches == {[field |-> "event_type", value |-> "waiver"],
                 [field |-> "effective_date", value |-> "2026-01-01"]}

\* EnrollmentEventSerializer (fields = '__all__'): the row after a partial update
patched_event(row, patch) ==
    IF patch.field = "event_type"
    THEN [row EXCEPT !.event_type = patch.value]
    ELSE [row EXCEPT !.effective_date = patch.value]

\* EnrollmentEvent.plan_enrollment: on_delete=models.SET_NULL
set_null_plan_enrollment(events, pe) ==
    [pk \in 1 .. Len(events) |->
        IF events[pk] # DeletedRow /\ events[pk].plan_enrollment = pe
        THEN [events[pk] EXCEPT !.plan_enrollment = None]
        ELSE events[pk]]

\* PlanEnrollmentViewSet.terminate on a row that exists (get_object answers 404 otherwise)
TerminateExisting ==
    /\ \A pe \in PlanEnrollmentIds : planEnrollments[pe] # DeletedRow
    /\ Terminate

\* PATCH enrollment-events/<pk>/ (ModelViewSet.partial_update)
EventPartialUpdate ==
    /\ response = Idle
    /\ \E pk \in 1 .. Len(enrollmentEvents), user \in Users, patch \in EventPatches :
         /\ enrollmentEvents[pk] # DeletedRow
         /\ enrollmentEvents' =
                [enrollmentEvents EXCEPT ![pk] = patched_event(@, patch)]
         /\ response' = [op |-> "event_partial_update", target |-> pk, user |-> user,
                         status |-> 200]
    /\ UNCHANGED <<enrollments, planEnrollments, now>>
    /\ EnrollFrame

\* DELETE enrollment-events/<pk>/ (ModelViewSet.destroy)
EventDestroy ==
    /\ response = Idle
    /\ \E pk \in 1 .. Len(enrollmentEvents), user \in Users :
         /\ enrollmentEvents[pk] # DeletedRow
         /\ enrollmentEvents' = [enrollmentEvents EXCEPT ![pk] = DeletedRow]
         /\ response' = [op |-> "event_destroy", target |-> pk, user |-> user,
                         status |-> 204]
    /\ UNCHANGED <<enrollments, planEnrollments, now>>
    /\ EnrollFrame

\* DELETE plan-enrollments/<pk>/ (ModelViewSet.destroy): the events that name the row
\* keep existing with a null plan_enrollment
PlanEnrollmentDestroy ==
    /\ response = Idle
    /\ \E pe \in PlanEnrollmentIds, user \in Users :
         /\ planEnrollments[pe] # DeletedRow
         /\ planEnrollments' = [planEnrollments EXCEPT ![pe] = DeletedRow]
         /\ enrollmentEvents' = set_null_plan_enrollment(enrollmentEvents, pe)
         /\ response' = [op |-> "plan_enrollment_destroy", target |-> pe, user |-> user,
                         status |-> 204]
    /\ UNCHANGED <<enrollments, now>>
    /\ EnrollFrame

EventsNext ==
    \/ StartEnrollment
    \/ SubmitEnrollment
    \/ TerminateExisting
    \/ EventPartialUpdate
    \/ EventDestroy
    \/ PlanEnrollmentDestroy
    \/ EnrollReturn

SpecEvents == EnrollInit /\ [][EventsNext]_vars

\* C21: the EnrollmentEvent log is append-only: after any sequence of API operations
\* every EnrollmentEvent ever created still exists with unchanged event type, employee,
\* plan enrollment reference and effective date
C21_EventsAppendOnly ==
    [][ /\ Len(enrollmentEvents') >= Len(enrollmentEvents)
        /\ \A pk \in 1 .. Len(enrollmentEvents) :
             enrollmentEvents[pk] # DeletedRow =>
                /\ enrollmentEvents'[pk] # DeletedRow
                /\ enrollmentEvents'[pk].event_type = enrollmentEvents[pk].event_type
                /\ enrollmentEvents'[pk].employee = enrollmentEvents[pk].employee
                /\ enrollmentEvents'[pk].plan_enrollment
                      = enrollmentEvents[pk].plan_enrollment
                /\ enrollmentEvents'[pk].effective_date
                      = enrollmentEvents[pk].effective_date ]_vars

\* the event of a submission was deleted by a DELETE to enrollment-events/1/
C21_EventDeleted ==
    /\ response # Idle
    /\ response.op = "event_destroy"
    /\ response.target = 1
    /\ enrollments["ee1"].status = "submitted"
    /\ enrollmentEvents = <<DeletedRow>>

----------------------------------------------------------------------------
(* SpecAssign: RBACService.assign_role.  profile is the stored profile of the target  *)
(* user (NoProfile when the user has none), auditLog the AuditLog table.  The body    *)
(* runs inside transaction.atomic(): a statement that raises leaves the block, the    *)
(* transaction is rolled back and the except clause returns False.                    *)

\* The AuditLog table is followed up to this many rows
MaxAuditLog == 2

\* the roles and organizations the calls name
AssignRoles == {"employee", "broker_admin"}

AssignOrgs == {None, "B1"}

\* the statement of the block that raises, if any
Failures == {"none", "get_or_create", "save", "audit_create"}

\* UserProfile.objects.get_or_create(user=user): the row, or a new row with the
\* defaults of the model
get_or_create_profile(p) ==
    IF HasProfile(p) THEN p ELSE [role |-> "employee", organization |-> None]

\* assign_role, lines 221-227: the profile as saved
profile_with_role(p, role, organization) ==
    LET got == get_or_create_profile(p)
    IN  [role |-> role,
         organization |-> IF organization # None THEN organization ELSE got.organization]

\* assign_role, lines 230-242: AuditLog.objects.create(...)
RoleChangeLog(p, role, organization, assigned_by) ==
    [user |-> assigned_by, action |-> "role_change", resource_type |-> "UserProfile",
     additional_data |-> [old_role |-> get_or_create_profile(p).role, new_role |-> role,
                          organization_id |-> organization]]

\* assign_role without the transaction: every statement that ran stays written
assign_role_autocommit(p, log, role, organization, assigned_by, failure) ==
    IF failure = "none"
    THEN [profile |-> profile_with_role(p, role, organization),
          auditLog |-> Append(log, RoleChangeLog(p, role, organization, assigned_by)),
          result |-> TRUE]
    ELSE IF failure = "get_or_create"
    THEN [profile |-> p, auditLog |-> log, result |-> FALSE]
    ELSE IF failure = "save"
    THEN [profile |-> get_or_create_profile(p), auditLog |-> log, result |-> FALSE]
    ELSE [profile |-> profile_with_role(p, role, organization), auditLog |-> log,
          result |-> FALSE]

\* RBACService.assign_role(user, role, assigned_by, organization): the stored state
\* after the call and the value returned
assign_role(p, log, role, organization, assigned_by, failure) ==
    IF failure = "none"
    THEN [profile |-> profile_with_role(p, role, organization),
          auditLog |-> Append(log, RoleChangeLog(p, role, organization, assigned_by)),
          result |-> TRUE]
    ELSE [profile |-> p, auditLog |-> log, result |-> FALSE]

AssignInit ==
    /\ profile \in {NoProfile} \cup [role : AssignRoles, organization : AssignOrgs \cup {"E1"}]
    /\ auditLog = <<>>
    /\ call = Idle
    /\ auditEvents = <<>>
    /\ memberships = {}
    /\ GuardQuiet
    /\ MemberQuiet
    /\ EnrollQuiet

AssignRole ==
    /\ call = Idle
    /\ Len(auditLog) < MaxAuditLog
    /\ \E role \in AssignRoles, organization \in AssignOrgs, assigned_by \in Users,
          failure \in Failures :
         LET r == assign_role(profile, auditLog, role, organization, assigned_by, failure)
         IN  /\ profile' = r.profile
             /\ auditLog' = r.auditLog
             /\ call' = [op |-> "assign_role", role |-> role,
                         organization |-> organization, assigned_by |-> assigned_by,
                         failure |-> failure, old_profile |-> profile,
                         result |-> r.result]
    /\ UNCHANGED <<auditEvents, memberships, guardVars, memberVars, enrollVars>>

AssignNext ==
    \/ AssignRole
    \/ Return

SpecAssign == AssignInit /\ [][AssignNext]_vars

\* C22: assign_role is all-or-nothing: either the target profile's new role (and
\* organization, when given) and one role_change audit record with old_role and
\* new_role are both persisted and the call returns true, or neither is persisted and
\* the call returns false
C22_AssignRoleAtomic ==
    [][ (call = Idle /\ call' # Idle /\ call'.op = "assign_role") =>
          IF call'.result
          THEN /\ profile'.role = call'.role
               /\ call'.organization # None => profile'.organization = call'.organization
               /\ Len(auditLog') = Len(auditLog) + 1
               /\ SubSeq(auditLog', 1, Len(auditLog)) = auditLog
               /\ LET entry == auditLog'[Len(auditLog')]
                  IN  /\ entry.action = "role_change"
                      /\ entry.additional_data.new_role = call'.role
                      /\ entry.additional_data.old_role =
                            (IF HasProfile(profile) THEN profile.role ELSE "employee")
          ELSE /\ profile' = profile
               /\ auditLog' = auditLog ]_vars

\* the audit write failed for an employee who was to become broker_admin of B1: the call
\* returned false, the profile is as it was and the log is empty
C22_Witness ==
    /\ call # Idle
    /\ call.op = "assign_role"
    /\ call.failure = "audit_create"
    /\ call.role = "broker_admin"
    /\ call.organization = "B1"
    /\ call.result = FALSE
    /\ profile = [role |-> "employee", organization |-> None]
    /\ auditLog = <<>>

----------------------------------------------------------------------------
(* SpecSaveFail: Membership creations whose AuditEvent write raises.  Model.save     *)
(* writes the row and then sends post_save; outside a transaction the row is         *)
(* committed when the receiver runs.  The admin's add view runs save_model inside    *)
(* transaction.atomic(), so an exception that leaves it rolls the row back.          *)

\* the AuditEvent.objects.create that raises: the receiver's, or save_model's own
FailingWrites == {"post_save", "save_model"}

\* Membership.save when the receiver's AuditEvent.objects.create raises: the exception
\* leaves save() before _sync_user_groups; in_transaction tells whether the caller
\* holds a transaction, which the exception rolls back
membership_save_audit_fails(ms, gs, ugs, instance, in_transaction) ==
    [memberships |-> IF in_transaction THEN ms ELSE WriteRow(ms, instance),
     events |-> <<>>,
     groups |-> gs,
     userGroups |-> ugs]

\* Membership.objects.create(...) in autocommit, the receiver's write failing
OrmCreateAuditFails ==
    /\ req = Idle
    /\ \E user \in SaveMembers, organization \in SaveOrgs, role \in SaveRoles :
         LET instance == [pk |-> NextPk(memberships), user |-> user,
                          organization |-> organization, role |-> role]
             saved == membership_save_audit_fails(memberships, groups, userGroups,
                                                  instance, FALSE)
         IN  /\ ~unique_violation(memberships, instance)
             /\ memberships' = saved.memberships
             /\ groups' = saved.groups
             /\ userGroups' = saved.userGroups
             /\ req' = [op |-> "create", instance |-> instance, old_role |-> None,
                        admin |-> None, outcome |-> "audit_failed"]
    /\ UNCHANGED auditEvents
    /\ SaveFrame

\* MembershipAdmin add view, one of its two AuditEvent writes failing: the view's
\* transaction is rolled back, with the row and everything the request wrote
AdminAddAuditFails ==
    /\ req = Idle
    /\ \E admin \in AdminUsers, user \in SaveMembers, organization \in SaveOrgs,
          role \in SaveRoles, failing \in FailingWrites :
         LET instance == [pk |-> NextPk(memberships), user |-> user,
                          organization |-> organization, role |-> role]
             saved == membership_save_audit_fails(memberships, groups, userGroups,
                                                  instance, TRUE)
         IN  /\ ~unique_violation(memberships, instance)
             /\ memberships' = saved.memberships
             /\ groups' = saved.groups
             /\ userGroups' = saved.userGroups
             /\ req' = [op |-> "admin_add", instance |-> instance, old_role |-> None,
                        admin |-> admin, failing |-> failing, outcome |-> "audit_failed"]
    /\ UNCHANGED auditEvents
    /\ SaveFrame

SaveFailNext ==
    \/ OrmCreate
    \/ OrmCreateAuditFails
    \/ AdminAdd
    \/ AdminAddAuditFails
    \/ SaveReturn

SpecSaveFail == SaveInit /\ [][SaveFailNext]_vars

\* C23: if the AuditEvent write triggered by a Membership save fails, the Membership
\* write is still committed: the membership row is persisted
C23_MembershipKept ==
    [][ (req = Idle /\ req' # Idle /\ req'.outcome = "audit_failed")
          => req'.instance \in memberships' ]_vars

\* the admin u2 added a membership of u1, the receiver's audit write failed, and the
\* table has no membership
C23_MembershipLost ==
    /\ req # Idle
    /\ req.op = "admin_add"
    /\ req.outcome = "audit_failed"
    /\ req.failing = "post_save"
    /\ req.admin = "u2"
    /\ memberships = {}
    /\ auditEvents = <<>>

----------------------------------------------------------------------------
(* SpecManage: RBACService.can_manage_user.  The manager is the request user, whose  *)
(* profile is the variable profile; the target is the manager again or a second      *)
(* user with any profile or none.                                                    *)

\* get_role_hierarchy_level: ROLE_HIERARCHY.get(role, 0)
get_role_hierarchy_level(role) ==
    IF role \in DOMAIN ROLE_HIERARCHY THEN ROLE_HIERARCHY[role] ELSE 0

\* can_manage_user refusing only a lower manager level
can_manage_user_nonstrict(manager_profile, target_profile) ==
    IF ~HasProfile(manager_profile) \/ ~HasProfile(target_profile)
    THEN FALSE
    ELSE IF get_role_hierarchy_level(manager_profile.role)
              < get_role_hierarchy_level(target_profile.role)
    THEN FALSE
    ELSE IF manager_profile.role = "super_admin"
    THEN TRUE
    ELSE manager_profile.organization = target_profile.organization

\* can_manage_user(manager, target_user), given the two users' profiles
can_manage_user(manager_profile, target_profile) ==
    IF ~HasProfile(manager_profile) \/ ~HasProfile(target_profile)
    THEN FALSE
    ELSE LET manager_level == get_role_hierarchy_level(manager_profile.role)
             target_level == get_role_hierarchy_level(target_profile.role)
         IN  IF manager_level <= target_level
             THEN FALSE
             ELSE IF manager_profile.role = "super_admin"
             THEN TRUE
             ELSE manager_profile.organization = target_profile.organization

\* rbac_service.can_manage_user(request user, target user); the record keeps the
\* answer to the reverse question as well
CanManageUserCall ==
    /\ call = Idle
    /\ \E target_user \in Users, other \in Profiles \cup {NoProfile} :
         LET target == IF target_user = RequestUser THEN profile ELSE other
         IN  call' = [op |-> "can_manage_user", target_user |-> target_user,
                      target |-> target,
                      result |-> can_manage_user(profile, target),
                      reverse |-> can_manage_user(target, profile)]
    /\ UNCHANGED <<profile, auditLog, auditEvents, memberships, guardVars, memberVars,
                   enrollVars>>

ManageNext ==
    \/ CanManageUserCall
    \/ Return

SpecManage == RBACInit /\ [][ManageNext]_vars

\* C24: can_manage_user(manager, target) is true exactly when both users have a
\* profile, the manager's hierarchy level is strictly greater than the target's, and
\* the manager is super_admin or both have the same organization; so nobody manages
\* themselves or a user of equal or higher level, and never both directions hold
C24_CanManageUser ==
    (call # Idle /\ call.op = "can_manage_user") =>
        LET level(p) == IF p.role \in DOMAIN ROLE_HIERARCHY
                        THEN ROLE_HIERARCHY[p.role] ELSE 0
        IN  /\ call.result <=>
                  /\ profile # NoProfile
                  /\ call.target # NoProfile
                  /\ level(profile) > level(call.target)
                  /\ \/ profile.role = "super_admin"
                     \/ profile.organization = call.target.organization
            /\ call.target_user = RequestUser => ~call.result
            /\ level(profile) <= level(call.target) => ~call.result
            /\ ~(call.result /\ call.reverse)

\* a broker_admin of B1 asked about a broker_user of B1: yes, and not the reverse
C24_Witness ==
    /\ call # Idle
    /\ call.op = "can_manage_user"
    /\ profile = [role |-> "broker_admin", organization |-> "B1"]
    /\ call.target_user = "u2"
    /\ call.target = [role |-> "broker_user", organization |-> "B1"]
    /\ call.result
    /\ ~call.reverse

----------------------------------------------------------------------------
(* SpecPure: the seven read-only calls of RBACService.  Each call reads the user's   *)
(* profile with getattr(user, 'profile', None) and answers from it and from the      *)
(* tables; Repeat asks the same question again on the store the first call left.     *)

\* has_role: the truth value of `profile and profile.role == role`
has_role(p, role) == HasProfile(p) /\ p.role = role

\* has_any_role: the truth value of `profile and profile.role in roles`
has_any_role(p, roles) == HasProfile(p) /\ p.role \in roles

\* get_user_permissions: {} without a profile, else ROLE_PERMISSIONS.get(role, {})
get_user_permissions(p) ==
    IF HasProfile(p) /\ p.role \in DOMAIN ROLE_PERMISSIONS
    THEN ROLE_PERMISSIONS[p.role]
    ELSE [res \in {} |-> {}]

\* a read of the profile that creates the missing one, as get_or_create does
profile_after_read_creating(p) ==
    IF HasProfile(p) THEN p ELSE [role |-> "employee", organization |-> None]

\* the stored profile after getattr(user, 'profile', None): the read writes nothing
profile_after_read(p) == p

\* RBACAPIMiddleware.rbac_endpoints: path prefix -> required_roles, in dict order.
\* A path is the sequence of its segments: "/api/broker/" is <<"api", "broker">>
rbac_endpoints ==
    << [path |-> <<"api", "broker">>,
        required_roles |-> {"broker_admin", "broker_user", "super_admin"}],
       [path |-> <<"api", "employees">>,
        required_roles |-> {"broker_admin", "broker_user", "employer_admin",
                            "employer_hr", "employee"}],
       [path |-> <<"api", "plans">>,
        required_roles |-> {"broker_admin", "broker_user", "employer_admin",
                            "employee"}],
       [path |-> <<"api", "admin">>,
        required_roles |-> {"super_admin"}] >>

\* the role lists the middleware passes to has_any_role
RoleLists == {rbac_endpoints[i].required_roles : i \in DOMAIN rbac_endpoints}

\* the answer of the service to the call c for a user with profile p
service_result(c, p) ==
    CASE c.op = "has_permission" ->
           has_permission(p, c.resource, c.action, c.organization_id)
      [] c.op = "has_role" -> has_role(p, c.role)
      [] c.op = "has_any_role" -> has_any_role(p, c.roles)
      [] c.op = "can_manage_user" -> can_manage_user(p, c.target)
      [] c.op = "get_user_permissions" -> get_user_permissions(p)
      [] c.op = "get_accessible_organizations" -> get_accessible_organizations(p)
      [] c.op = "filter_queryset_by_permissions" ->
           filter_queryset_by_permissions(p, RequestUser, QuerySets[c.queryset],
                                          c.resource)

\* the record of a call: its arguments, its answer, and room for a second answer
Asked(c, p) == [args |-> c, result |-> service_result(c, p), again |-> <<>>]

\* what a call leaves in the store: the profile as the read left it, nothing else
ReadFrame ==
    /\ profile' = profile_after_read(profile)
    /\ UNCHANGED <<auditLog, auditEvents, memberships, guardVars, memberVars, enrollVars>>

HasPermissionQuery ==
    /\ call = Idle
    /\ \E resource \in Resources, action \in Actions, org \in OrgContexts :
         call' = Asked([op |-> "has_permission", resource |-> resource,
                        action |-> action, organization_id |-> org], profile)
    /\ ReadFrame

HasRoleQuery ==
    /\ call = Idle
    /\ \E role \in Roles : call' = Asked([op |-> "has_role", role |-> role], profile)
    /\ ReadFrame

HasAnyRoleQuery ==
    /\ call = Idle
    /\ \E roles \in RoleLists :
         call' = Asked([op |-> "has_any_role", roles |-> roles], profile)
    /\ ReadFrame

CanManageUserQuery ==
    /\ call = Idle
    /\ \E target \in Profiles \cup {NoProfile} :
         call' = Asked([op |-> "can_manage_user", target |-> target], profile)
    /\ ReadFrame

UserPermissionsQuery ==
    /\ call = Idle
    /\ call' = Asked([op |-> "get_user_permissions"], profile)
    /\ ReadFrame

AccessibleOrganizationsQuery ==
    /\ call = Idle
    /\ call' = Asked([op |-> "get_accessible_organizations"], profile)
    /\ ReadFrame

FilterQuery ==
    /\ call = Idle
    /\ \E resource \in Resources, q \in QuerySetNames :
         call' = Asked([op |-> "filter_queryset_by_permissions",
                        resource |-> resource, queryset |-> q], profile)
    /\ ReadFrame

\* the same call with the same arguments, with no write in between
Repeat ==
    /\ call # Idle
    /\ call.again = <<>>
    /\ call' = [call EXCEPT !.again = <<service_result(call.args, profile)>>]
    /\ ReadFrame

PureNext ==
    \/ HasPermissionQuery
    \/ HasRoleQuery
    \/ HasAnyRoleQuery
    \/ CanManageUserQuery
    \/ UserPermissionsQuery
    \/ AccessibleOrganizationsQuery
    \/ FilterQuery
    \/ Repeat
    \/ Return

SpecPure == RBACInit /\ [][PureNext]_vars

----------------------------------------------------------------------------
(* SpecApi: RBACAPIMiddleware.__call__ for one request of the request user, who is   *)
(* anonymous or authenticated with the stored profile.                               *)

\* request.path values: the four configured prefixes, deeper paths, an API path
\* without configuration, and a path outside /api/
RequestPaths ==
    { <<"api", "broker">>, <<"api", "broker", "employers">>, <<"api", "employees">>,
      <<"api", "employees", "emp1">>, <<"api", "plans">>, <<"api", "admin">>,
      <<"api", "auth">>, <<"static", "app.js">> }

\* path.startswith(prefix), on segment sequences
startswith(path, prefix) ==
    /\ Len(prefix) <= Len(path)
    /\ SubSeq(path, 1, Len(prefix)) = prefix

\* _check_api_access, lines 142-146: the first configured endpoint the path starts
\* with, 0 when there is none
endpoint_config(path) ==
    LET matching == {i \in DOMAIN rbac_endpoints : startswith(path, rbac_endpoints[i].path)}
    IN  IF matching = {} THEN 0
        ELSE CHOOSE i \in matching : \A j \in matching : i <= j

\* _check_api_access: TRUE when it raises RBACException
check_api_access_raises(p, is_anonymous, path) ==
    IF is_anonymous
    THEN FALSE
    ELSE LET i == endpoint_config(path)
         IN  IF i = 0
             THEN FALSE
             ELSE LET required_roles == rbac_endpoints[i].required_roles
                  IN  required_roles # {} /\ ~has_any_role(p, required_roles)

\* RBACAPIMiddleware.__call__: the check for /api/ paths, then the view
ApiRequest ==
    /\ call = Idle
    /\ \E path \in RequestPaths, is_anonymous \in BOOLEAN :
         LET raised == /\ startswith(path, <<"api">>)
                       /\ check_api_access_raises(profile, is_anonymous, path)
         IN  call' = [op |-> "api_request", path |-> path,
                      is_anonymous |-> is_anonymous,
                      outcome |-> IF raised THEN "RBACException" ELSE "view"]
    /\ UNCHANGED <<profile, auditLog, auditEvents, memberships, guardVars, memberVars,
                   enrollVars>>

ApiNext ==
    \/ ApiRequest
    \/ Return

SpecApi == RBACInit /\ [][ApiNext]_vars

\* C26: an authenticated actor whose profile role is super_admin is never rejected by
\* RBACAPIMiddleware: for every path under /api/ no RBACException is raised and the
\* request reaches the view
C26_SuperAdminPasses ==
    (/\ call # Idle
     /\ call.op = "api_request"
     /\ ~call.is_anonymous
     /\ profile # NoProfile
     /\ profile.role = "super_admin"
     /\ call.path[1] = "api")
        => call.outcome = "view"

\* a super_admin asked for /api/employees/ and got the RBACException
C26_SuperAdminRejected ==
    /\ call # Idle
    /\ call.op = "api_request"
    /\ ~call.is_anonymous
    /\ profile = [role |-> "super_admin", organization |-> None]
    /\ call.path = <<"api", "employees">>
    /\ call.outcome = "RBACException"

----------------------------------------------------------------------------
(* SpecLevels: has_permission without organization context, asked for two roles of   *)
(* ROLE_HIERARCHY of which the first has the higher level.                           *)

\* the pairs of roles of ROLE_HIERARCHY, higher level first
LevelPairs ==
    {pair \in (DOMAIN ROLE_HIERARCHY) \X (DOMAIN ROLE_HIERARCHY) :
        ROLE_HIERARCHY[pair[1]] > ROLE_HIERARCHY[pair[2]]}

\* has_permission(user, resource, action) for a user of the higher and one of the lower
\* role, both without organization
CompareRoles ==
    /\ call = Idle
    /\ \E pair \in LevelPairs, resource \in Resources, action \in Actions :
         call' = [op |-> "compare_roles", higher |-> pair[1], lower |-> pair[2],
                  resource |-> resource, action |-> action,
                  granted_higher |->
                      has_permission([role |-> pair[1], organization |-> None],
                                     resource, action, None),
                  granted_lower |->
                      has_permission([role |-> pair[2], organization |-> None],
                                     resource, action, None)]
    /\ UNCHANGED <<profile, auditLog, auditEvents, memberships, guardVars, memberVars,
                   enrollVars>>

LevelsNext ==
    \/ CompareRoles
    \/ Return

LevelsInit ==
    /\ RBACQuiet
    /\ auditEvents = <<>>
    /\ memberships = {}
    /\ GuardQuiet
    /\ MemberQuiet
    /\ EnrollQuiet

SpecLevels == LevelsInit /\ [][LevelsNext]_vars

----------------------------------------------------------------------------
(* SpecRace: the start_enrollment, submit_enrollment and approve_enrollment handlers *)
(* run by two server workers at once.  A handler is a sequence of database           *)
(* statements: get_object() reads the row into the request's own object, the status  *)
(* test is made on that object, save() writes the object's fields back, and          *)
(* submit_enrollment then inserts the event.  No statement locks the row and the     *)
(* handlers open no transaction, so the statements of two requests interleave.       *)
(* pc[w] is the position of worker w, req[w] its request and loaded object.          *)

Workers == {"w1", "w2"}

RaceOps == {"start_enrollment", "submit_enrollment", "approve_enrollment"}

RaceInit ==
    /\ enrollments = [e \in EnrollmentIds |-> FreshEnrollment]
    /\ planEnrollments = [pe \in PlanEnrollmentIds |-> FreshPlanEnrollment]
    /\ enrollmentEvents = <<>>
    /\ now = 1
    /\ response = Idle
    /\ submissions = <<>>
    /\ employees = <<>>
    /\ pc = [w \in Workers |-> "idle"]
    /\ req = [w \in Workers |-> Idle]
    /\ groups = {}
    /\ userGroups = {}
    /\ auditEvents = <<>>
    /\ memberships = {}
    /\ RBACQuiet
    /\ GuardQuiet

RaceFrame ==
    UNCHANGED <<planEnrollments, now, response, submissions, employees, groups,
                userGroups, auditEvents, memberships, rbacVars, guardVars>>

\* enrollment = self.get_object(): the row as it is now, copied into the request
GetObject(w) ==
    /\ pc[w] = "idle"
    /\ \E op \in RaceOps, e \in EnrollmentIds, user \in Users :
         req' = [req EXCEPT ![w] = [op |-> op, target |-> e, user |-> user,
                                    enrollment |-> enrollments[e], status |-> 0]]
    /\ pc' = [pc EXCEPT ![w] = "loaded"]
    /\ UNCHANGED <<enrollments, enrollmentEvents>>
    /\ RaceFrame

\* start_enrollment, lines 577-582: the test on the loaded object, then save()
SaveStarted(w) ==
    /\ pc[w] = "loaded"
    /\ req[w].op = "start_enrollment"
    /\ can_start(req[w].enrollment.status)
    /\ enrollments' = [enrollments EXCEPT ![req[w].target] = started(req[w].enrollment, now)]
    /\ req' = [req EXCEPT ![w].status = 200]
    /\ pc' = [pc EXCEPT ![w] = "done"]
    /\ UNCHANGED enrollmentEvents
    /\ RaceFrame

\* submit_enrollment, lines 589-592: the test on the loaded object, then save()
SaveSubmitted(w) ==
    /\ pc[w] = "loaded"
    /\ req[w].op = "submit_enrollment"
    /\ can_submit(req[w].enrollment.status)
    /\ enrollments' = [enrollments EXCEPT
                           ![req[w].target] = submitted(req[w].enrollment, now)]
    /\ pc' = [pc EXCEPT ![w] = "saved"]
    /\ UNCHANGED <<req, enrollmentEvents>>
    /\ RaceFrame

\* submit_enrollment, lines 595-603: EnrollmentEvent.objects.create, then the response
CreateSubmitEvent(w) ==
    /\ pc[w] = "saved"
    /\ Len(enrollmentEvents) < MaxEvents
    /\ enrollmentEvents' = Append(enrollmentEvents, SubmitEvent(req[w].target))
    /\ req' = [req EXCEPT ![w].status = 200]
    /\ pc' = [pc EXCEPT ![w] = "done"]
    /\ UNCHANGED enrollments
    /\ RaceFrame

\* approve_enrollment, lines 610-616: the test on the loaded object, then save()
SaveApproved(w) ==
    /\ pc[w] = "loaded"
    /\ req[w].op = "approve_enrollment"
    /\ can_approve(req[w].enrollment.status)
    /\ enrollments' = [enrollments EXCEPT
                           ![req[w].target] = approved(req[w].enrollment, now, req[w].user)]
    /\ req' = [req EXCEPT ![w].status = 200]
    /\ pc' = [pc EXCEPT ![w] = "done"]
    /\ UNCHANGED enrollmentEvents
    /\ RaceFrame

\* lines 583, 604, 617: the test on the loaded object fails, 400
Refuse(w) ==
    /\ pc[w] = "loaded"
    /\ \/ req[w].op = "start_enrollment" /\ ~can_start(req[w].enrollment.status)
       \/ req[w].op = "submit_enrollment" /\ ~can_submit(req[w].enrollment.status)
       \/ req[w].op = "approve_enrollment" /\ ~can_approve(req[w].enrollment.status)
    /\ req' = [req EXCEPT ![w].status = 400]
    /\ pc' = [pc EXCEPT ![w] = "done"]
    /\ UNCHANGED <<enrollments, enrollmentEvents>>
    /\ RaceFrame

\* the response is sent; the worker takes the next request
SendResponse(w) ==
    /\ pc[w] = "done"
    /\ pc' = [pc EXCEPT ![w] = "idle"]
    /\ req' = [req EXCEPT ![w] = Idle]
    /\ UNCHANGED <<enrollments, enrollmentEvents>>
    /\ RaceFrame

RaceNext ==
    \/ \E w \in Workers : GetObject(w)
    \/ \E w \in Workers : SaveStarted(w)
    \/ \E w \in Workers : SaveSubmitted(w)
    \/ \E w \in Workers : CreateSubmitEvent(w)
    \/ \E w \in Workers : SaveApproved(w)
    \/ \E w \in Workers : Refuse(w)
    \/ \E w \in Workers : SendResponse(w)

SpecRace == RaceInit /\ [][RaceNext]_vars

\* C28: under any interleaving of concurrent submit_enrollment requests on the same
\* EmployeeEnrollment at most one succeeds and at most one enrollment event is created
\* for it; likewise at most one of several concurrent start_enrollment or
\* approve_enrollment requests succeeds
C28_AtMostOneSucceeds ==
    /\ ~ \E op \in RaceOps :
           \A w \in Workers :
               /\ pc[w] = "done"
               /\ req[w].op = op
               /\ req[w].target = "ee1"
               /\ req[w].status = 200
    /\ Len(SelectSeq(enrollmentEvents, LAMBDA ev : ev.event_type = "enrollment")) <= 1

\* both workers answered 200 to submit_enrollment on ee1 and two events were created
C28_BothSubmitted ==
    /\ \A w \in Workers :
           /\ pc[w] = "done"
           /\ req[w].op = "submit_enrollment"
           /\ req[w].target = "ee1"
           /\ req[w].status = 200
    /\ Len(enrollmentEvents) = 2
    /\ enrollments["ee1"].status = "submitted"

----------------------------------------------------------------------------
(* PlanEnrollmentViewSet.terminate and the status of the plan enrollment, under      *)
(* SpecEnroll                                                                        *)

\* C29: terminate changes a PlanEnrollment only when its status is enrolled: on one
\* that is terminated, waived or declined it leaves status and termination_date
\* unchanged and creates no EnrollmentEvent, so every PlanEnrollment has at most one
\* termination EnrollmentEvent
C29_TerminateOnlyEnrolled ==
    [][ /\ (/\ response = Idle
            /\ response' # Idle
            /\ response'.op = "terminate"
            /\ planEnrollments[response'.target].status # "enrolled")
              => /\ planEnrollments' = planEnrollments
                 /\ enrollmentEvents' = enrollmentEvents
        /\ \A pe \in PlanEnrollmentIds :
              Len(SelectSeq(enrollmentEvents',
                            LAMBDA ev : /\ ev.event_type = "termination"
                                        /\ ev.plan_enrollment = pe)) <= 1 ]_vars

\* pe1 was terminated twice: two termination events name it
C29_TerminatedTwice ==
    /\ response # Idle
    /\ response.op = "terminate"
    /\ response.status = 200
    /\ planEnrollments["pe1"].status = "terminated"
    /\ Len(enrollmentEvents) = 2
    /\ \A i \in 1..2 : /\ enrollmentEvents[i].event_type = "termination"
                       /\ enrollmentEvents[i].plan_enrollment = "pe1"

----------------------------------------------------------------------------
(* SpecForms: EmployeeFormSubmissionViewSet.approve, reject and request_changes,     *)
(* served one at a time.  approve creates the Employee from the submission; the      *)
(* Employee table is unique on (employer, employee_id), and approve turns any        *)
(* exception into a 500.                                                             *)

\* the submissions: their employer and the first eight hex digits of their UUID
SubmissionRows ==
    [ s1 |-> [employer |-> "E1", hex |-> "1a2b3c4d"],
      s2 |-> [employer |-> "E1", hex |-> "9f8e7d6c"] ]

SubmissionIds == DOMAIN SubmissionRows

\* str.upper() on the hex digits of the model
upper(h) ==
    CASE h = "1a2b3c4d" -> "1A2B3C4D"
      [] h = "9f8e7d6c" -> "9F8E7D6C"

\* f"EMP{submission.id.hex[:8].upper()}"
employee_id_of(s) == <<"EMP", upper(SubmissionRows[s].hex)>>

\* a new EmployeeFormSubmission: pending, not reviewed, no employee
FreshSubmission ==
    [status |-> "pending", reviewed_by |-> None, reviewed_at |-> NullTime,
     notes |-> "", created_employee |-> 0]

\* an Employee the employer entered before, whose employee_id is the one s2 would get
EarlierEmployee == [employer |-> "E1", employee_id |-> <<"EMP", "9F8E7D6C">>]

\* request.data.get('notes', '')
Notes == {"", "checked"}

\* the review actions answering in every status
can_review_always(status) == TRUE

\* lines 713, 762, 779: submission.status != 'pending' answers 400
can_review(status) == status = "pending"

\* Employee.Meta.unique_together = ['employer', 'employee_id']
employee_unique_violation(es, employee) ==
    \E i \in DOMAIN es : /\ es[i].employer = employee.employer
                         /\ es[i].employee_id = employee.employee_id

\* request.user if request.user.is_authenticated else None
reviewer(user) == IF user = Anonymous THEN None ELSE user

\* reject and request_changes, lines 765-769 and 782-786
reviewed(sub, status, user, t, notes) ==
    [sub EXCEPT !.status = status, !.reviewed_by = reviewer(user), !.reviewed_at = t,
                !.notes = notes]

FormsInit ==
    /\ submissions = [s \in SubmissionIds |-> FreshSubmission]
    /\ employees \in {<<>>, <<EarlierEmployee>>}
    /\ enrollments = <<>>
    /\ planEnrollments = <<>>
    /\ enrollmentEvents = <<>>
    /\ now = 1
    /\ response = Idle
    /\ auditEvents = <<>>
    /\ memberships = {}
    /\ RBACQuiet
    /\ GuardQuiet
    /\ MemberQuiet

FormsFrame ==
    UNCHANGED <<enrollments, planEnrollments, enrollmentEvents, now, auditEvents,
                memberships, rbacVars, guardVars, memberVars>>

\* EmployeeFormSubmissionViewSet.approve
Approve ==
    /\ response = Idle
    /\ \E s \in SubmissionIds, user \in Users \cup {Anonymous}, notes \in Notes :
         LET employee == [employer |-> SubmissionRows[s].employer,
                          employee_id |-> employee_id_of(s)]
         IN  IF ~can_review(submissions[s].status)
             THEN /\ response' = [op |-> "approve", target |-> s, user |-> user,
                                  status |-> 400]
                  /\ UNCHANGED <<submissions, employees>>
             ELSE IF employee_unique_violation(employees, employee)
             THEN /\ response' = [op |-> "approve", target |-> s, user |-> user,
                                  status |-> 500]
                  /\ UNCHANGED <<submissions, employees>>
             ELSE /\ employees' = Append(employees, employee)
                  /\ submissions' =
                       [submissions EXCEPT
                          ![s] = [reviewed(@, "approved", user, now, notes)
                                    EXCEPT !.created_employee = Len(employees) + 1]]
                  /\ response' = [op |-> "approve", target |-> s, user |-> user,
                                  status |-> 200]
    /\ FormsFrame

\* EmployeeFormSubmissionViewSet.reject
Reject ==
    /\ response = Idle
    /\ \E s \in SubmissionIds, user \in Users \cup {Anonymous}, notes \in Notes :
         IF ~can_review(submissions[s].status)
         THEN /\ response' = [op |-> "reject", target |-> s, user |-> user,
                              status |-> 400]
              /\ UNCHANGED submissions
         ELSE /\ submissions' = [submissions EXCEPT
                                    ![s] = reviewed(@, "rejected", user, now, notes)]
              /\ response' = [op |-> "reject", target |-> s, user |-> user,
                              status |-> 200]
    /\ UNCHANGED employees
    /\ FormsFrame

\* EmployeeFormSubmissionViewSet.request_changes
RequestChanges ==
    /\ response = Idle
    /\ \E s \in SubmissionIds, user \in Users \cup {Anonymous}, notes \in Notes :
         IF ~can_review(submissions[s].status)
         THEN /\ response' = [op |-> "request_changes", target |-> s, user |-> user,
                              status |-> 400]
              /\ UNCHANGED submissions
         ELSE /\ submissions' =
                    [submissions EXCEPT
                       ![s] = reviewed(@, "changes_requested", user, now, notes)]
              /\ response' = [op |-> "request_changes", target |-> s, user |-> user,
                              status |-> 200]
    /\ UNCHANGED employees
    /\ FormsFrame

FormsReturn ==
    /\ response # Idle
    /\ response' = Idle
    /\ UNCHANGED <<submissions, employees>>
    /\ FormsFrame

FormsNext ==
    \/ Approve
    \/ Reject
    \/ RequestChanges
    \/ FormsReturn

SpecForms == FormsInit /\ [][FormsNext]_vars

====
